---- MODULE Spec2Model ----
(***************************************************************************)
(* Model of the Bulk-Transaction-Concurrency tools: the ConcurrencyMonitor *)
(* tracker and its monitored rounds (concurrency-monitor), the batched     *)
(* runner of multi-users (runParallelPurchases) and the simultaneous-click *)
(* simulators.  JavaScript runs every callback to completion, so each      *)
(* action below is one callback (or one synchronous call) of the program.  *)
(***************************************************************************)
EXTENDS Integers, Sequences, FiniteSets, TLC

(***************************************************************************)
(* Bounds of the model.                                                    *)
(***************************************************************************)
MaxRequests == 2
NumUsers == 2
MaxParallelUsers == 4
MaxConcurrent == 2
MaxClickUsers == 3
MaxSamples == 3
MaxStressUsers == 3
MaxUnusual == 1
MaxOutcomes == 2

(***************************************************************************)
(* Program constants.                                                      *)
(***************************************************************************)
ProximityWindowMs == 100
PauseMs == 100
SimulatorMaxDelay == 200
AnalysisWindowMs == 100
SustainedDurationMs == 10000
SustainedIntervalMs == 500
SustainedGraceMs == 1000
GradualSteps == 5
GradualPauseMs == 1000

\* The clock is read at whole windows: two start times are either equal
\* (inside the window) or exactly one window apart (outside it, the window
\* being exclusive).
TickMs == ProximityWindowMs

\* The tracker is observed until the clock has moved one full window.
MaxTime == ProximityWindowMs

(***************************************************************************)
(* Text.  A JavaScript string is a sequence of one-character strings.      *)
(***************************************************************************)
P_insufficient_tokens == <<"i", "n", "s", "u", "f", "f", "i", "c", "i", "e", "n", "t", " ", "t", "o", "k", "e", "n", "s">>
P_project_not_available == <<"p", "r", "o", "j", "e", "c", "t", " ", "n", "o", "t", " ", "a", "v", "a", "i", "l", "a", "b", "l", "e">>
P_concurrent_modification == <<"c", "o", "n", "c", "u", "r", "r", "e", "n", "t", " ", "m", "o", "d", "i", "f", "i", "c", "a", "t", "i", "o", "n">>
P_race_condition == <<"r", "a", "c", "e", " ", "c", "o", "n", "d", "i", "t", "i", "o", "n">>
P_conflict == <<"c", "o", "n", "f", "l", "i", "c", "t">>
P_not_available == <<"n", "o", "t", " ", "a", "v", "a", "i", "l", "a", "b", "l", "e">>

T_UnknownError == <<"U", "n", "k", "n", "o", "w", "n", " ", "e", "r", "r", "o", "r">>
T_InsufficientTokens == <<"I", "n", "s", "u", "f", "f", "i", "c", "i", "e", "n", "t", " ", "T", "o", "k", "e", "n", "s">>
T_TokensNotAvailable == <<"T", "o", "k", "e", "n", "s", " ", "n", "o", "t", " ", "a", "v", "a", "i", "l", "a", "b", "l", "e">>
T_ProjectNotAvailable == <<"P", "r", "o", "j", "e", "c", "t", " ", "N", "o", "t", " ", "A", "v", "a", "i", "l", "a", "b", "l", "e">>
T_InvalidEmail == <<"i", "n", "v", "a", "l", "i", "d", " ", "e", "m", "a", "i", "l">>
T_NetworkError == <<"N", "e", "t", "w", "o", "r", "k", " ", "E", "r", "r", "o", "r">>
T_Status400 == <<"R", "e", "q", "u", "e", "s", "t", " ", "f", "a", "i", "l", "e", "d", " ", "w", "i", "t", "h", " ", "s", "t", "a", "t", "u", "s", " ", "c", "o", "d", "e", " ", "4", "0", "0">>
T_EmailMustBeAnEmail == <<"e", "m", "a", "i", "l", " ", "m", "u", "s", "t", " ", "b", "e", " ", "a", "n", " ", "e", "m", "a", "i", "l">>

\* String.prototype.toLowerCase, on the letters the texts use.
LowerOf == [c \in {"A", "C", "E", "I", "N", "P", "R", "T", "U"} |->
              CASE c = "A" -> "a" [] c = "C" -> "c" [] c = "E" -> "e"
                [] c = "I" -> "i" [] c = "N" -> "n" [] c = "P" -> "p"
                [] c = "R" -> "r" [] c = "T" -> "t" [] c = "U" -> "u"]

toLowerCase(s) == [i \in 1..Len(s) |-> IF s[i] \in DOMAIN LowerOf THEN LowerOf[s[i]] ELSE s[i]]

\* String.prototype.includes: sub occurs in s as a contiguous substring.
includes(s, sub) ==
  \E i \in 1..(Len(s) - Len(sub) + 1) : SubSeq(s, i, i + Len(sub) - 1) = sub

(***************************************************************************)
(* JavaScript values an error descriptor can be: undefined, null, a string *)
(* or a non-string object (an array of validation messages).               *)
(***************************************************************************)
Undefined == [kind |-> "undefined", text |-> <<>>]
Null == [kind |-> "null", text |-> <<>>]
Str(s) == [kind |-> "string", text |-> s]
Arr(s) == [kind |-> "array", text |-> s]

\* Truthiness: undefined, null and the empty string are falsy; arrays and
\* objects are truthy.
Truthy(v) == \/ v.kind \in {"array", "object"}
             \/ v.kind = "string" /\ v.text # <<>>

\* a || b
OrElse(a, b) == IF Truthy(a) THEN a ELSE b

(***************************************************************************)
(* makePurchase (investments.js).  The HTTP call either answers 2xx, or    *)
(* fails with an error response whose body may carry a message, or fails   *)
(* without a response (network error); error.message may be empty.         *)
(***************************************************************************)
\* response.data of an accepted reservation: an object.
ResponseData == [kind |-> "object", text |-> <<>>]

HttpOutcomes ==
  {[kind |-> "ok", message |-> Undefined, errmsg |-> Undefined,
    data |-> ResponseData]}
  \cup {[kind |-> "status", message |-> m, errmsg |-> Str(T_Status400),
         data |-> Undefined] :
          m \in {Str(T_TokensNotAvailable), Str(T_ProjectNotAvailable),
                 Str(T_InvalidEmail), Arr(T_EmailMustBeAnEmail)}}
  \cup {[kind |-> "network", message |-> Undefined, errmsg |-> e,
         data |-> Undefined] :
          e \in {Str(<<>>)}}

\* const errorMsg = error.response?.data?.message || error.message
makePurchase(http) ==
  IF http.kind = "ok"
    THEN [success |-> TRUE, error |-> Undefined, data |-> http.data]
    ELSE [success |-> FALSE, error |-> OrElse(http.message, http.errmsg),
          data |-> Undefined]

PurchaseResults == {makePurchase(h) : h \in HttpOutcomes}

(***************************************************************************)
(* State.                                                                  *)
(***************************************************************************)
VARIABLES
  \* the tracker
  metrics,         \* ConcurrencyMonitor.metrics
  activeRequests,  \* ConcurrencyMonitor.activeRequests, in insertion order
  now,             \* Date.now()
  raised,          \* the exception the last tracker call raised, or "none"
  peakSeen,        \* history: the largest concurrentRequests ever reached
  polled,          \* what the last getMetrics call returned, or <<>>
  lastEnd,         \* history: the last endRequest call that found its request
  \* concurrency-monitor's main and simulateConcurrentRequests
  mainPc,          \* where main stands
  tasks,           \* the request tasks of the current round, by user index
  roundResults,    \* what the last resolved round returned
  pauseStart,      \* when the pause between rounds began
  endCalls,        \* history: endRequest calls made so far, by request id
  \* multi-users' runParallelPurchases
  ppOptions,       \* users.length, options.concurrent and config.test_size
  ppPc,            \* where runParallelPurchases stands
  ppI,             \* its loop variable i (0-based)
  ppProc,          \* the processUserPurchases call of each user
  ppResults,       \* its results array
  \* simulateSimultaneousClicks
  clOptions,       \* which script is run, its options.delay and options.burst
  clPc,            \* where simulateSimultaneousClicks stands
  clClicks,        \* the click promise of each user
  clOrder,         \* history: user indexes in the order their requests ended
  clReturn,        \* what simulateSimultaneousClicks returned, or <<>>
  clAnalysis,      \* the analysis of the returned results, or <<>>
  \* stress-test's scenarios
  stOptions,       \* argv.scenario and users.length
  stPc,            \* where the scenario function stands
  stNow,           \* Date.now() - the time the scenario was called
  stStep,          \* the phase or step of spike and gradual (1-based), or 0
  stStart,         \* startTime of the awaited batch
  stPending,       \* the makePurchase calls in flight
  stTimers,        \* the timers that are set
  stBatch,         \* the results of the awaited Promise.all so far, by index
  stResults,       \* results (burst, sustained) or allResults (spike, gradual)
  stIssued,        \* history: the number of makePurchase calls made
  stUnusual,       \* history: the number of calls not answered 2xx at once
  stReturn,        \* what the scenario function returned, or <<>>
  \* the analysis functions applied to a list of outcomes
  anResults,       \* the outcomes handed to the function
  anOut            \* the function applied last and what it returned, or <<>>

monitorVars == <<metrics, activeRequests, now, raised, peakSeen, polled, lastEnd>>
roundVars == <<mainPc, tasks, roundResults, pauseStart, endCalls>>
ppVars == <<ppOptions, ppPc, ppI, ppProc, ppResults>>
clVars == <<clOptions, clPc, clClicks, clOrder, clReturn, clAnalysis>>
stVars == <<stOptions, stPc, stNow, stStep, stStart, stPending, stTimers, stBatch, stResults,
            stIssued, stUnusual, stReturn>>
anVars == <<anResults, anOut>>
vars == <<monitorVars, roundVars, ppVars, clVars, stVars, anVars>>

(***************************************************************************)
(* ConcurrencyMonitor (concurrency-monitor).  A monitor value is the pair  *)
(* of this.metrics and this.activeRequests.                                *)
(***************************************************************************)
NoErrors == [k \in {} |-> 0]

NewMonitor ==
  [metrics |-> [totalRequests |-> 0, successfulRequests |-> 0,
                failedRequests |-> 0, concurrentRequests |-> 0,
                raceConditions |-> 0, responseTimes |-> <<>>,
                errors |-> NoErrors, requestTimeline |-> <<>>,
                peakConcurrency |-> 0],
   activeRequests |-> <<>>]

Monitor == [metrics |-> metrics, activeRequests |-> activeRequests]

\* A variant that compares the peak with the depth before the insertion.
startRequest_stalePeak(mon, requestId, userEmail, timestamp) ==
  LET request == [id |-> requestId, user |-> userEmail,
                  startTime |-> timestamp, status |-> "active"]
      active == Append(mon.activeRequests, request)
      m == mon.metrics
      peak == IF m.concurrentRequests > m.peakConcurrency
                THEN m.concurrentRequests ELSE m.peakConcurrency
      event == [timestamp |-> timestamp, type |-> "start",
                requestId |-> requestId, user |-> userEmail,
                concurrentCount |-> Len(active)]
  IN [metrics |-> [m EXCEPT !.totalRequests = @ + 1,
                            !.concurrentRequests = Len(active),
                            !.peakConcurrency = peak,
                            !.requestTimeline = Append(@, event)],
      activeRequests |-> active]

\* A variant that records the depth before the insertion in the start event.
startRequest_depthBefore(mon, requestId, userEmail, timestamp) ==
  LET request == [id |-> requestId, user |-> userEmail,
                  startTime |-> timestamp, status |-> "active"]
      active == Append(mon.activeRequests, request)
      size == Len(active)
      m == mon.metrics
      peak == IF size > m.peakConcurrency THEN size ELSE m.peakConcurrency
      event == [timestamp |-> timestamp, type |-> "start",
                requestId |-> requestId, user |-> userEmail,
                concurrentCount |-> Len(mon.activeRequests)]
  IN [metrics |-> [m EXCEPT !.totalRequests = @ + 1,
                            !.concurrentRequests = size,
                            !.peakConcurrency = peak,
                            !.requestTimeline = Append(@, event)],
      activeRequests |-> active]

\* A variant that puts the newest start event first in the timeline.
startRequest_prepend(mon, requestId, userEmail, timestamp) ==
  LET request == [id |-> requestId, user |-> userEmail,
                  startTime |-> timestamp, status |-> "active"]
      active == Append(mon.activeRequests, request)
      size == Len(active)
      m == mon.metrics
      peak == IF size > m.peakConcurrency THEN size ELSE m.peakConcurrency
      event == [timestamp |-> timestamp, type |-> "start",
                requestId |-> requestId, user |-> userEmail,
                concurrentCount |-> size]
  IN [metrics |-> [m EXCEPT !.totalRequests = @ + 1,
                            !.concurrentRequests = size,
                            !.peakConcurrency = peak,
                            !.requestTimeline = <<event>> \o @],
      activeRequests |-> active]

startRequest(mon, requestId, userEmail, timestamp) ==
  LET request == [id |-> requestId, user |-> userEmail,
                  startTime |-> timestamp, status |-> "active"]
      active == Append(mon.activeRequests, request)
      size == Len(active)
      m == mon.metrics
      peak == IF size > m.peakConcurrency THEN size ELSE m.peakConcurrency
      event == [timestamp |-> timestamp, type |-> "start",
                requestId |-> requestId, user |-> userEmail,
                concurrentCount |-> size]
  IN [metrics |-> [m EXCEPT !.totalRequests = @ + 1,
                            !.concurrentRequests = size,
                            !.peakConcurrency = peak,
                            !.requestTimeline = Append(@, event)],
      activeRequests |-> active]

\* A variant of the phrase list without 'project not available'.
concurrencyErrors_withoutProject ==
  <<P_insufficient_tokens, P_concurrent_modification, P_race_condition,
    P_conflict>>

concurrencyErrors ==
  <<P_insufficient_tokens, P_project_not_available, P_concurrent_modification,
    P_race_condition, P_conflict>>

\* The start events of other requests within the window of request's start.
\* A variant whose window takes in a start exactly 100 ms away.
concurrentRequestsOf_inclusive(timeline, request) ==
  SelectSeq(timeline,
            LAMBDA event :
              /\ event.type = "start"
              /\ (IF event.timestamp >= request.startTime
                    THEN event.timestamp - request.startTime
                    ELSE request.startTime - event.timestamp) <= ProximityWindowMs
              /\ event.requestId # request.id)

concurrentRequestsOf(timeline, request) ==
  SelectSeq(timeline,
            LAMBDA event :
              /\ event.type = "start"
              /\ (IF event.timestamp >= request.startTime
                    THEN event.timestamp - request.startTime
                    ELSE request.startTime - event.timestamp) < ProximityWindowMs
              /\ event.requestId # request.id)

\* A variant that compares the text as written, without toLowerCase.
isConcurrencyError_caseSensitive(error) ==
  /\ Truthy(error)
  /\ error.kind = "string"
  /\ \E i \in 1..Len(concurrencyErrors) :
       includes(error.text, concurrencyErrors[i])

\* error && error.toLowerCase().includes(errorType), over concurrencyErrors:
\* a truthy error that is no string has no toLowerCase and raises TypeError.
isConcurrencyError(error) ==
  /\ Truthy(error)
  /\ error.kind = "string"
  /\ \E i \in 1..Len(concurrencyErrors) :
       includes(toLowerCase(error.text), concurrencyErrors[i])

\* A variant that counts every failure with a cohort, whatever its text.
detectRaceCondition_anyFailure(m, request, success, error) ==
  LET cohort == concurrentRequestsOf(m.requestTimeline, request)
  IN IF Len(cohort) > 0 /\ ~success
       THEN [metrics |-> [m EXCEPT !.raceConditions = @ + 1], raised |-> "none"]
       ELSE [metrics |-> m, raised |-> "none"]

detectRaceCondition(m, request, success, error) ==
  LET cohort == concurrentRequestsOf(m.requestTimeline, request)
  IN IF Len(cohort) > 0 /\ ~success
       THEN IF Truthy(error) /\ error.kind # "string"
              THEN [metrics |-> m, raised |-> "TypeError"]
              ELSE IF isConcurrencyError(error)
                     THEN [metrics |-> [m EXCEPT !.raceConditions = @ + 1],
                           raised |-> "none"]
                     ELSE [metrics |-> m, raised |-> "none"]
       ELSE [metrics |-> m, raised |-> "none"]

\* Array.from(this.activeRequests).find(r => r.id === requestId): the index
\* of the first active request with that id, 0 when there is none.
findActive(active, requestId) ==
  IF \E i \in 1..Len(active) : active[i].id = requestId
    THEN CHOOSE i \in 1..Len(active) :
           /\ active[i].id = requestId
           /\ \A j \in 1..(i - 1) : active[j].id # requestId
    ELSE 0

removeAt(seq, i) == SubSeq(seq, 1, i - 1) \o SubSeq(seq, i + 1, Len(seq))

mapGet(map, key) == IF key \in DOMAIN map THEN map[key] ELSE 0

\* A Map.set that stores a count of one whatever count it is given.
mapSet_one(map, key, value) ==
  [k \in DOMAIN map \cup {key} |-> IF k = key THEN 1 ELSE map[k]]

mapSet(map, key, value) ==
  [k \in DOMAIN map \cup {key} |-> IF k = key THEN value ELSE map[k]]

\* A variant that keeps the depth as a counter and decrements it on every
\* call, found or not.
endRequest_decrement(mon, requestId, success, responseTime, errorArg, timestamp) ==
  LET i == findActive(mon.activeRequests, requestId)
      active == IF i = 0 THEN mon.activeRequests ELSE removeAt(mon.activeRequests, i)
  IN [metrics |-> [mon.metrics EXCEPT !.concurrentRequests = @ - 1],
      activeRequests |-> active, raised |-> "none"]

\* A variant that counts a failure only when it carries an error descriptor.
endRequest_failureNeedsError(mon, requestId, success, responseTime, errorArg, timestamp) ==
  LET i == findActive(mon.activeRequests, requestId)
  IN IF i = 0
       THEN [metrics |-> mon.metrics, activeRequests |-> mon.activeRequests,
             raised |-> "none"]
       ELSE
         LET active == removeAt(mon.activeRequests, i)
             event == [timestamp |-> timestamp, type |-> "end",
                       requestId |-> requestId, user |-> mon.activeRequests[i].user,
                       success |-> success, responseTime |-> responseTime,
                       concurrentCount |-> Len(active)]
             m1 == IF success
                     THEN [mon.metrics EXCEPT !.successfulRequests = @ + 1]
                     ELSE IF Truthy(errorArg)
                            THEN [mon.metrics EXCEPT !.failedRequests = @ + 1,
                                    !.errors = mapSet(@, errorArg, mapGet(@, errorArg) + 1)]
                            ELSE mon.metrics
         IN [metrics |-> [m1 EXCEPT !.concurrentRequests = Len(active),
                                    !.responseTimes = Append(@, responseTime),
                                    !.requestTimeline = Append(@, event)],
             activeRequests |-> active, raised |-> "none"]

\* A variant that records the response time of successful requests only.
endRequest_successLatencyOnly(mon, requestId, success, responseTime, errorArg, timestamp) ==
  LET error == IF errorArg = Undefined THEN Null ELSE errorArg
      i == findActive(mon.activeRequests, requestId)
  IN IF i = 0
       THEN [metrics |-> mon.metrics, activeRequests |-> mon.activeRequests,
             raised |-> "none"]
       ELSE
         LET request == mon.activeRequests[i]
             active == removeAt(mon.activeRequests, i)
             size == Len(active)
             errorKey == OrElse(error, Str(T_UnknownError))
             m0 == mon.metrics
             m1 == IF success
                     THEN [m0 EXCEPT !.successfulRequests = @ + 1,
                                     !.responseTimes = Append(@, responseTime)]
                     ELSE [m0 EXCEPT !.failedRequests = @ + 1,
                                     !.errors = mapSet(@, errorKey,
                                                       mapGet(@, errorKey) + 1)]
             event == [timestamp |-> timestamp, type |-> "end",
                       requestId |-> requestId, user |-> request.user,
                       success |-> success, responseTime |-> responseTime,
                       concurrentCount |-> size]
             m2 == [m1 EXCEPT !.concurrentRequests = size,
                              !.requestTimeline = Append(@, event)]
             d == detectRaceCondition(m2, request, success, error)
         IN [metrics |-> d.metrics, activeRequests |-> active,
             raised |-> d.raised]

\* The key metrics.errors files a failure under.  A Map compares a string key
\* by its text and an object key by identity: an array descriptor, parsed
\* afresh from each response, is a key of its own for the request that got it.
errorKeyOf(error, requestId) ==
  LET errorKey == OrElse(error, Str(T_UnknownError))
  IN IF errorKey.kind = "array"
       THEN [kind |-> "array", text |-> errorKey.text, ref |-> requestId]
       ELSE errorKey

\* endRequest(requestId, success, responseTime, error = null); the result
\* carries the monitor after the call and the exception the call raised.
endRequest(mon, requestId, success, responseTime, errorArg, timestamp) ==
  LET error == IF errorArg = Undefined THEN Null ELSE errorArg
      i == findActive(mon.activeRequests, requestId)
  IN IF i = 0
       THEN [metrics |-> mon.metrics, activeRequests |-> mon.activeRequests,
             raised |-> "none"]
       ELSE
         LET request == mon.activeRequests[i]
             active == removeAt(mon.activeRequests, i)
             size == Len(active)
             errorKey == errorKeyOf(error, requestId)
             m0 == mon.metrics
             m1 == IF success
                     THEN [m0 EXCEPT !.successfulRequests = @ + 1]
                     ELSE [m0 EXCEPT !.failedRequests = @ + 1,
                                     !.errors = mapSet(@, errorKey,
                                                       mapGet(@, errorKey) + 1)]
             event == [timestamp |-> timestamp, type |-> "end",
                       requestId |-> requestId, user |-> request.user,
                       success |-> success, responseTime |-> responseTime,
                       concurrentCount |-> size]
             m2 == [m1 EXCEPT !.concurrentRequests = size,
                              !.responseTimes = Append(@, responseTime),
                              !.requestTimeline = Append(@, event)]
             d == detectRaceCondition(m2, request, success, error)
         IN [metrics |-> d.metrics, activeRequests |-> active,
             raised |-> d.raised]

RECURSIVE sumSeq(_)
sumSeq(s) == IF s = <<>> THEN 0 ELSE s[1] + sumSeq(Tail(s))

\* Math.round of the non-negative quotient n / d (halves round up).
roundDiv(n, d) == (2 * n + d) \div (2 * d)

\* getMetrics: avgResponseTime in ms; successRate in hundredths of a percent
\* (Math.round(rate * 100) / 100).
getMetrics(mon) ==
  LET m == mon.metrics
      n == Len(m.responseTimes)
  IN [totalRequests |-> m.totalRequests,
      successfulRequests |-> m.successfulRequests,
      failedRequests |-> m.failedRequests,
      concurrentRequests |-> m.concurrentRequests,
      raceConditions |-> m.raceConditions,
      responseTimes |-> m.responseTimes,
      errors |-> m.errors,
      requestTimeline |-> m.requestTimeline,
      peakConcurrency |-> m.peakConcurrency,
      avgResponseTime |-> IF n > 0 THEN roundDiv(sumSeq(m.responseTimes), n) ELSE 0,
      successRate100 |-> IF m.totalRequests > 0
                           THEN roundDiv(m.successfulRequests * 10000, m.totalRequests)
                           ELSE 0,
      currentConcurrency |-> Len(mon.activeRequests)]

\* A variant that empties the latency list once it has been read.
getMetricsCall_drain(mon) ==
  [returned |-> getMetrics(mon),
   metrics |-> [mon.metrics EXCEPT !.responseTimes = <<>>],
   activeRequests |-> mon.activeRequests]

\* A getMetrics call: what it returns and the monitor it leaves behind.  The
\* method assigns to no field of the monitor.
getMetricsCall(mon) ==
  [returned |-> getMetrics(mon),
   metrics |-> mon.metrics,
   activeRequests |-> mon.activeRequests]

Max(a, b) == IF a >= b THEN a ELSE b

(***************************************************************************)
(* The tracker driven through its interface: any sequence of startRequest, *)
(* endRequest (also for ids that are not active) and getMetrics calls,     *)
(* with time passing between calls.                                        *)
(***************************************************************************)
RequestIds == {<<0, 0>>, <<0, 1>>}
UserEmails == {"ana@example.com", "luis@example.com"}
\* The caller of request id [1] is user [1], of [2] user [2].
UserOf(requestId) == IF requestId[2] = 0 THEN "ana@example.com" ELSE "luis@example.com"
ResponseTimes == {100}

\* What a caller passes as (success, error): a success, failures whose text
\* holds a listed phrase (in another letter case), failures whose text holds
\* none, a failure without descriptor and a failure with a non-string one.
ApiResults ==
  {[success |-> TRUE, error |-> Undefined],
   [success |-> FALSE, error |-> Str(T_InsufficientTokens)],
   [success |-> FALSE, error |-> Str(T_ProjectNotAvailable)],
   [success |-> FALSE, error |-> Str(T_TokensNotAvailable)],
   [success |-> FALSE, error |-> Str(T_InvalidEmail)],
   [success |-> FALSE, error |-> Undefined],
   [success |-> FALSE, error |-> Arr(T_EmailMustBeAnEmail)]}

\* The request an endRequest(requestId, ...) call would end is active and the
\* start event of a request with another id lies less than the window away
\* from its start.
HasCohort(requestId) ==
  LET i == findActive(activeRequests, requestId)
  IN /\ i # 0
     /\ \E k \in 1..Len(metrics.requestTimeline) :
          LET e == metrics.requestTimeline[k]
              d == e.timestamp - activeRequests[i].startTime
          IN /\ e.type = "start"
             /\ e.requestId # requestId
             /\ d < ProximityWindowMs
             /\ -d < ProximityWindowMs

\* The parts of the state a specification does not use stay as they are here.
RoundIdle ==
  /\ mainPc = "none" /\ tasks = <<>> /\ roundResults = <<>>
  /\ pauseStart = 0 /\ endCalls = <<>>

ParallelIdle ==
  /\ ppOptions = <<>> /\ ppPc = "none" /\ ppI = 0
  /\ ppProc = <<>> /\ ppResults = <<>>

ClicksIdle ==
  /\ clOptions = <<>> /\ clPc = "none" /\ clClicks = <<>> /\ clOrder = <<>>
  /\ clReturn = <<>> /\ clAnalysis = <<>>

StressIdle ==
  /\ stOptions = <<>> /\ stPc = "none" /\ stNow = 0 /\ stStep = 0 /\ stStart = 0
  /\ stPending = {} /\ stTimers = {} /\ stBatch = <<>> /\ stResults = <<>>
  /\ stIssued = 0 /\ stUnusual = 0 /\ stReturn = <<>>
  /\ anResults = <<>> /\ anOut = <<>>

NoEnd == [called |-> FALSE, requestId |-> <<>>, success |-> TRUE,
          error |-> Undefined, cohort |-> FALSE, raceBefore |-> 0]

MonitorIdle ==
  /\ metrics = NewMonitor.metrics
  /\ activeRequests = NewMonitor.activeRequests
  /\ now = 0
  /\ raised = "none"
  /\ peakSeen = 0
  /\ polled = <<>>
  /\ lastEnd = NoEnd

\* What is remembered of an endRequest(requestId, success, _, error) call: its
\* arguments, whether the request had a cohort and the count before the call.
\* A call that finds no active request is not remembered.
EndRecord(requestId, success, error) ==
  IF findActive(activeRequests, requestId) = 0
    THEN lastEnd
    ELSE [called |-> TRUE, requestId |-> requestId, success |-> success,
          error |-> error, cohort |-> HasCohort(requestId),
          raceBefore |-> metrics.raceConditions]

Tick ==
  /\ now + TickMs <= MaxTime
  /\ now' = now + TickMs
  /\ UNCHANGED <<metrics, activeRequests, raised, peakSeen, polled, lastEnd>>
  /\ UNCHANGED <<roundVars, ppVars, clVars, stVars, anVars>>

StartRequestCall(requestId, userEmail) ==
  /\ metrics.totalRequests < MaxRequests
  /\ LET r == startRequest(Monitor, requestId, userEmail, now)
     IN /\ metrics' = r.metrics
        /\ activeRequests' = r.activeRequests
        /\ peakSeen' = Max(peakSeen, r.metrics.concurrentRequests)
  /\ raised' = "none"
  /\ UNCHANGED <<now, polled, lastEnd>>
  /\ UNCHANGED <<roundVars, ppVars, clVars, stVars, anVars>>

EndRequestCall(requestId, success, responseTime, error) ==
  /\ LET r == endRequest(Monitor, requestId, success, responseTime, error, now)
     IN /\ metrics' = r.metrics
        /\ activeRequests' = r.activeRequests
        /\ raised' = r.raised
        /\ peakSeen' = Max(peakSeen, r.metrics.concurrentRequests)
  /\ lastEnd' = EndRecord(requestId, success, error)
  /\ UNCHANGED <<now, polled>>
  /\ UNCHANGED <<roundVars, ppVars, clVars, stVars, anVars>>

InitMonitor == MonitorIdle /\ RoundIdle /\ ParallelIdle /\ ClicksIdle /\ StressIdle

NextMonitor ==
  \/ Tick
  \/ \E id \in RequestIds : StartRequestCall(id, UserOf(id))
  \/ \E id \in RequestIds, rt \in ResponseTimes, r \in ApiResults :
       EndRequestCall(id, r.success, rt, r.error)

SpecMonitor == InitMonitor /\ [][NextMonitor]_vars

(***************************************************************************)
(* The tracker's latency statistics: requests started and ended with       *)
(* response times of 100, 200 and 300 ms, successful or not.               *)
(***************************************************************************)
\* endRequest's responseTime argument.
LatencySamples == {100, 200, 300}

\* endRequest's success and error arguments.
SampleResults ==
  {[success |-> TRUE, error |-> Undefined],
   [success |-> FALSE, error |-> Str(T_InvalidEmail)]}

SampleStartCall(requestId, userEmail) ==
  /\ metrics.totalRequests < MaxSamples
  /\ LET r == startRequest(Monitor, requestId, userEmail, now)
     IN /\ metrics' = r.metrics
        /\ activeRequests' = r.activeRequests
        /\ peakSeen' = Max(peakSeen, r.metrics.concurrentRequests)
  /\ raised' = "none"
  /\ UNCHANGED <<now, polled, lastEnd>>
  /\ UNCHANGED <<roundVars, ppVars, clVars, stVars, anVars>>

\* The request ids of the sampled requests.
SampleIds == {<<0, 0>>}

NextLatency ==
  \/ \E id \in SampleIds : SampleStartCall(id, UserOf(id))
  \/ \E id \in SampleIds, rt \in LatencySamples, r \in SampleResults :
       EndRequestCall(id, r.success, rt, r.error)

SpecLatency == InitMonitor /\ [][NextLatency]_vars

(***************************************************************************)
(* concurrency-monitor: main runs rounds of simulateConcurrentRequests     *)
(* until the deadline, with a pause after each round, while an interval    *)
(* timer polls getMetrics.  Timer and I/O callbacks run between the        *)
(* synchronous stretches of main, never inside one.                        *)
(***************************************************************************)
UserEmailList ==
  <<"ana@example.com", "luis@example.com", "eva@example.com", "raul@example.com",
    "ines@example.com", "hugo@example.com">>

\* config.users
users == [i \in 1..NumUsers |-> [email |-> UserEmailList[i]]]

\* argv.duration * 1000: the deadline lies one clock step after the start, so
\* requests end before the deadline or at it.
DurationMs == TickMs

\* What the reservation service answers in a monitored round.
RoundOutcomes ==
  {h \in HttpOutcomes :
     h.message \in {Undefined, Str(T_ProjectNotAvailable), Str(T_InvalidEmail),
                    Arr(T_EmailMustBeAnEmail)}}

IdleTask == [pc |-> "idle", requestId |-> <<>>, startTime |-> 0, outcome |-> <<>>]

InitRound ==
  /\ MonitorIdle
  /\ mainPc = "loop"
  /\ tasks = [i \in 1..NumUsers |-> IdleTask]
  /\ roundResults = <<>>
  /\ pauseStart = 0
  /\ endCalls = NoErrors
  /\ ParallelIdle /\ ClicksIdle /\ StressIdle

\* while (Date.now() < endTime): enter simulateConcurrentRequests.
LoopEnterUntil(duration) ==
  /\ mainPc = "loop"
  /\ now < duration
  /\ mainPc' = "dispatching"
  /\ tasks' = [i \in 1..NumUsers |-> IdleTask]
  /\ UNCHANGED <<monitorVars, roundResults, pauseStart, endCalls, ppVars, clVars, stVars, anVars>>

LoopEnter == LoopEnterUntil(DurationMs)

\* The loop ends: clearInterval, generateConcurrencyReport, process.exit(0).
FinishAfter(duration) ==
  /\ mainPc = "loop"
  /\ ~(now < duration)
  /\ mainPc' = "exit0"
  /\ UNCHANGED <<monitorVars, tasks, roundResults, pauseStart, endCalls, ppVars, clVars, stVars, anVars>>

Finish == FinishAfter(DurationMs)

\* users.map(async (user, index) => ...) up to the await of makePurchase,
\* for the next user: the request id, startRequest, startTime.
Dispatch(i) ==
  /\ mainPc = "dispatching"
  /\ tasks[i].pc = "idle"
  /\ \A j \in 1..(i - 1) : tasks[j].pc # "idle"
  /\ LET requestId == <<now, i - 1>>
         r == startRequest(Monitor, requestId, users[i].email, now)
     IN /\ metrics' = r.metrics
        /\ activeRequests' = r.activeRequests
        /\ peakSeen' = Max(peakSeen, r.metrics.concurrentRequests)
        /\ tasks' = [tasks EXCEPT ![i] = [pc |-> "pending", requestId |-> requestId,
                                          startTime |-> now, outcome |-> <<>>]]
  /\ raised' = "none"
  /\ mainPc' = IF i = NumUsers THEN "awaiting" ELSE "dispatching"
  /\ UNCHANGED <<now, polled, lastEnd, roundResults, pauseStart, endCalls, ppVars, clVars, stVars, anVars>>

\* A variant that hands the outcomes back last promise first.
promiseAll_reversed(ts) == [j \in 1..Len(ts) |-> ts[Len(ts) + 1 - j].outcome]

\* Promise.all(requestPromises): the outcomes in the order of the users.
promiseAll(ts) == [j \in 1..Len(ts) |-> ts[j].outcome]

\* makePurchase resolves for user i: the rest of the task.  When endRequest
\* raises, the catch block reads startTime, which is declared inside the try
\* block and not in scope: a ReferenceError leaves the task, Promise.all
\* rejects, and main's catch ends the process with status 1.
Complete(i, http) ==
  /\ mainPc = "awaiting"
  /\ tasks[i].pc = "pending"
  /\ LET result == makePurchase(http)
         responseTime == now - tasks[i].startTime
         r == endRequest(Monitor, tasks[i].requestId, result.success,
                         responseTime, result.error, now)
         outcome == [user |-> users[i].email, success |-> result.success,
                     responseTime |-> responseTime, error |-> result.error]
         fulfilled == [tasks EXCEPT ![i].pc = "fulfilled", ![i].outcome = outcome]
     IN /\ metrics' = r.metrics
        /\ activeRequests' = r.activeRequests
        /\ peakSeen' = Max(peakSeen, r.metrics.concurrentRequests)
        /\ lastEnd' = EndRecord(tasks[i].requestId, result.success, result.error)
        /\ endCalls' = mapSet(endCalls, tasks[i].requestId,
                              mapGet(endCalls, tasks[i].requestId) + 1)
        /\ IF r.raised = "none"
             THEN /\ raised' = "none"
                  /\ tasks' = fulfilled
                  /\ IF \A j \in 1..NumUsers : fulfilled[j].pc = "fulfilled"
                       THEN /\ roundResults' = promiseAll(fulfilled)
                            /\ mainPc' = "pausing"
                            /\ pauseStart' = now
                       ELSE UNCHANGED <<roundResults, mainPc, pauseStart>>
             ELSE /\ raised' = "ReferenceError"
                  /\ tasks' = [tasks EXCEPT ![i].pc = "rejected"]
                  /\ mainPc' = "exit1"
                  /\ UNCHANGED <<roundResults, pauseStart>>
  /\ UNCHANGED <<now, polled, ppVars, clVars, stVars, anVars>>

\* A variant of the pause that does not wait for its timer.
PauseElapsed_atOnce ==
  /\ mainPc = "pausing"
  /\ mainPc' = "loop"
  /\ UNCHANGED <<monitorVars, tasks, roundResults, pauseStart, endCalls, ppVars, clVars, stVars, anVars>>

\* setTimeout(resolve, 100) fires: back to the loop test.
PauseElapsed ==
  /\ mainPc = "pausing"
  /\ now >= pauseStart + PauseMs
  /\ mainPc' = "loop"
  /\ UNCHANGED <<monitorVars, tasks, roundResults, pauseStart, endCalls, ppVars, clVars, stVars, anVars>>

\* The interval timer: monitor.getMetrics().
Poll ==
  /\ mainPc \in {"awaiting", "pausing"}
  /\ LET c == getMetricsCall(Monitor)
     IN /\ polled' = c.returned
        /\ metrics' = c.metrics
        /\ activeRequests' = c.activeRequests
  /\ UNCHANGED <<now, raised, peakSeen, lastEnd>>
  /\ UNCHANGED <<roundVars, ppVars, clVars, stVars, anVars>>

\* Time passes while main awaits; the clock is followed up to the deadline
\* and through a pending pause.
ClockAdvanceUntil(duration) ==
  /\ mainPc \in {"awaiting", "pausing"}
  /\ \/ now < duration
     \/ mainPc = "pausing" /\ now < pauseStart + PauseMs
  /\ now' = now + TickMs
  /\ UNCHANGED <<metrics, activeRequests, raised, peakSeen, polled, lastEnd>>
  /\ UNCHANGED <<roundVars, ppVars, clVars, stVars, anVars>>

ClockAdvance == ClockAdvanceUntil(DurationMs)

NextRound ==
  \/ LoopEnter
  \/ Finish
  \/ \E i \in 1..NumUsers : Dispatch(i)
  \/ \E i \in 1..NumUsers, h \in RoundOutcomes : Complete(i, h)
  \/ PauseElapsed
  \/ Poll
  \/ ClockAdvance

SpecRound == InitRound /\ [][NextRound]_vars

(***************************************************************************)
(* The monitor's main over two rounds: a duration of two clock steps, so   *)
(* that a second round is dispatched after the pause that follows the      *)
(* first.                                                                  *)
(***************************************************************************)
\* --duration, long enough for a second round.
TwoRoundsMs == 2 * TickMs

\* The answers of the server in the two-round run: a success, or the
\* rejection "project not available".
TwoRoundOutcomes ==
  {h \in RoundOutcomes : h.kind = "ok" \/ h.message = Str(T_ProjectNotAvailable)}

LoopEnterTwoRounds == LoopEnterUntil(TwoRoundsMs)

FinishTwoRounds == FinishAfter(TwoRoundsMs)

ClockAdvanceTwoRounds == ClockAdvanceUntil(TwoRoundsMs)

NextTwoRounds ==
  \/ LoopEnterTwoRounds
  \/ FinishTwoRounds
  \/ \E i \in 1..NumUsers : Dispatch(i)
  \/ \E i \in 1..NumUsers, h \in TwoRoundOutcomes : Complete(i, h)
  \/ PauseElapsed
  \/ Poll
  \/ ClockAdvanceTwoRounds

SpecTwoRounds == InitRound /\ [][NextTwoRounds]_vars

(***************************************************************************)
(* multi-users: runParallelPurchases runs processUserPurchases for the     *)
(* users in batches of maxConcurrent and awaits each batch.                *)
(***************************************************************************)
\* config.test_size
TestSizes == {1, 2}

\* What makePurchase resolves with for a purchase of a user.
PurchaseAnswers ==
  {makePurchase(h) : h \in {g \in HttpOutcomes :
                              g.message \in {Undefined, Str(T_InvalidEmail)}
                              /\ g.kind # "network"}}

\* A variant that takes every user into one batch whatever the option says.
maxConcurrent_allUsers(options) == options.users

\* A variant that admits one user at a time when no ceiling is given.
maxConcurrent_oneByOne(options) ==
  IF options.concurrent > 0 THEN options.concurrent ELSE 1

\* options.concurrent > 0 ? options.concurrent : users.length
maxConcurrent(options) ==
  IF options.concurrent > 0 THEN options.concurrent ELSE options.users

\* users.slice(i, i + maxConcurrent), as the set of (1-based) user indexes.
batchAt(i, options) ==
  {u \in 1..options.users : i < u /\ u <= i + maxConcurrent(options)}

WaitingProc == [status |-> "waiting", i |-> 0, phase |-> "none",
                successful |-> 0, failed |-> 0, errors |-> <<>>]

\* processUserPurchases up to its first await: results initialised, i = 0,
\* makePurchase called.
StartedProc == [status |-> "running", i |-> 0, phase |-> "purchase",
                successful |-> 0, failed |-> 0, errors |-> <<>>]

\* The users whose processUserPurchases call has not settled yet.
InFlight == {u \in DOMAIN ppProc : ppProc[u].status = "running"}

InitParallel ==
  /\ MonitorIdle /\ RoundIdle /\ ClicksIdle /\ StressIdle
  /\ ppOptions \in [users : 1..MaxParallelUsers, concurrent : 0..MaxConcurrent,
                    testSize : TestSizes]
  /\ ppPc = "loop"
  /\ ppI = 0
  /\ ppProc = [u \in 1..ppOptions.users |-> WaitingProc]
  /\ ppResults = <<>>

\* for (i < users.length): slice the batch and call processUserPurchases for
\* each of its users; then await Promise.all.
StartBatch ==
  /\ ppPc = "loop"
  /\ ppI < ppOptions.users
  /\ ppProc' = [u \in DOMAIN ppProc |->
                  IF u \in batchAt(ppI, ppOptions) THEN StartedProc ELSE ppProc[u]]
  /\ ppPc' = "awaiting"
  /\ UNCHANGED <<ppOptions, ppI, ppResults, monitorVars, roundVars, clVars, stVars, anVars>>

\* The loop is over: return results.
ReturnResults ==
  /\ ppPc = "loop"
  /\ ~(ppI < ppOptions.users)
  /\ ppPc' = "done"
  /\ UNCHANGED <<ppOptions, ppI, ppProc, ppResults, monitorVars, roundVars, clVars, stVars, anVars>>

\* makePurchase resolves for user u: count the result, start the 300 ms delay.
PurchaseDone(u, result) ==
  /\ ppPc = "awaiting"
  /\ ppProc[u].status = "running"
  /\ ppProc[u].phase = "purchase"
  /\ ppProc' = [ppProc EXCEPT ![u] =
       IF result.success
         THEN [@ EXCEPT !.successful = @ + 1, !.phase = "delay"]
         ELSE [@ EXCEPT !.failed = @ + 1, !.phase = "delay",
                        !.errors = Append(@, [index |-> ppProc[u].i + 1,
                                              error |-> result.error])]]
  /\ UNCHANGED <<ppOptions, ppPc, ppI, ppResults, monitorVars, roundVars, clVars, stVars, anVars>>

\* The result record processUserPurchases returns for user u.
userResult(u, proc) ==
  [email |-> UserEmailList[u], total |-> ppOptions.testSize,
   successful |-> proc.successful, failed |-> proc.failed, errors |-> proc.errors]

RECURSIVE seqOfSet(_)
\* The members of a set of numbers in increasing order.
seqOfSet(S) ==
  IF S = {} THEN <<>>
  ELSE LET m == CHOOSE x \in S : \A y \in S : x <= y
       IN <<m>> \o seqOfSet(S \ {m})

\* The delay of user u ends: the next purchase, or the end of the user's
\* loop.  When the last user of the batch returns, Promise.all resolves and
\* runParallelPurchases pushes the batch results and moves i on.
DelayDone(u) ==
  /\ ppPc = "awaiting"
  /\ ppProc[u].status = "running"
  /\ ppProc[u].phase = "delay"
  /\ LET next == ppProc[u].i + 1
         proc == IF next < ppOptions.testSize
                   THEN [ppProc[u] EXCEPT !.i = next, !.phase = "purchase"]
                   ELSE [ppProc[u] EXCEPT !.i = next, !.phase = "none",
                                          !.status = "finished"]
         procs == [ppProc EXCEPT ![u] = proc]
         batch == batchAt(ppI, ppOptions)
         order == seqOfSet(batch)
     IN /\ ppProc' = procs
        /\ IF \A v \in batch : procs[v].status = "finished"
             THEN /\ ppResults' = ppResults \o
                        [k \in 1..Len(order) |-> userResult(order[k], procs[order[k]])]
                  /\ ppI' = ppI + maxConcurrent(ppOptions)
                  /\ ppPc' = "loop"
             ELSE UNCHANGED <<ppResults, ppI, ppPc>>
  /\ UNCHANGED <<ppOptions, monitorVars, roundVars, clVars, stVars, anVars>>

NextParallel ==
  \/ StartBatch
  \/ ReturnResults
  \/ \E u \in 1..MaxParallelUsers, r \in PurchaseAnswers :
       u \in DOMAIN ppProc /\ PurchaseDone(u, r)
  \/ \E u \in 1..MaxParallelUsers : u \in DOMAIN ppProc /\ DelayDone(u)

SpecParallel == InitParallel /\ [][NextParallel]_vars

(***************************************************************************)
(* Result analysis.  A JavaScript number that a division produced is a     *)
(* fraction in lowest terms, or NaN, Infinity or -Infinity; rounding       *)
(* errors of the floating-point division are left out.                     *)
(***************************************************************************)
NaN == [kind |-> "NaN", num |-> 0, den |-> 0]
Infinity == [kind |-> "Infinity", num |-> 1, den |-> 0]
NegInfinity == [kind |-> "-Infinity", num |-> -1, den |-> 0]

Abs(x) == IF x < 0 THEN -x ELSE x

RECURSIVE GCD(_, _)
GCD(a, b) == IF b = 0 THEN a ELSE GCD(b, a % b)

\* The number a / b of two integers.
jsDiv(a, b) ==
  IF b = 0
    THEN IF a = 0 THEN NaN ELSE IF a > 0 THEN Infinity ELSE NegInfinity
    ELSE LET g == GCD(Abs(a), Abs(b))
             sign == IF b < 0 THEN -1 ELSE 1
         IN [kind |-> "number", num |-> sign * (a \div g), den |-> Abs(b) \div g]

\* An integer as a number.
Whole(n) == [kind |-> "number", num |-> n, den |-> 1]

\* result.error || 'Unknown error', as the property name of errorGroups.
errorTypeOf(error) == IF Truthy(error) THEN error.text ELSE T_UnknownError

RECURSIVE groupErrors(_)
\* failed.forEach(result => errorGroups[errorType] = (... || 0) + 1)
groupErrors(failed) ==
  IF failed = <<>> THEN NoErrors
  ELSE LET rest == groupErrors(Tail(failed))
           key == errorTypeOf(failed[1].error)
       IN mapSet(rest, key, mapGet(rest, key) + 1)

\* The smallest and the largest of a non-empty set of numbers.
MinOf(S) == CHOOSE x \in S : \A y \in S : x <= y
MaxOf(S) == CHOOSE x \in S : \A y \in S : x >= y

\* What the two analyzeResults functions compute alike.
analysisOf(results) ==
  LET successful == SelectSeq(results, LAMBDA r : r.success)
      failed == SelectSeq(results, LAMBDA r : ~r.success)
      n == Len(results)
      times == {results[k].responseTime : k \in 1..n}
      total == sumSeq([k \in 1..n |-> results[k].responseTime])
  IN [total |-> n,
      successful |-> Len(successful),
      failed |-> Len(failed),
      successRate |-> jsDiv(Len(successful) * 100, n),
      avgResponseTime |-> IF n = 0 THEN NaN ELSE Whole(roundDiv(total, n)),
      minResponseTime |-> IF n = 0 THEN Infinity ELSE Whole(MinOf(times)),
      maxResponseTime |-> IF n = 0 THEN NegInfinity ELSE Whole(MaxOf(times)),
      concurrentRequests |->
        Cardinality({k \in 1..n :
                       Abs(results[k].timestamp - results[1].timestamp)
                         < AnalysisWindowMs}),
      errorGroups |-> groupErrors(failed)]

\* results.length / (millis / 1000)
throughputOf(count, millis) == jsDiv(count * 1000, millis)

\* analyzeResults(results, totalTime) of simultaneous-clicks.
analyzeResults(results, totalTime) ==
  [analysis |-> analysisOf(results),
   throughput |-> throughputOf(Len(results), totalTime)]

\* analyzeResults(results) of multi-user-simulator, the token sums left out:
\* the time is taken from the first to the last result's timestamp, and
\* the divisor is 1 for an empty list.
simulatorAnalyzeResults(results) ==
  [analysis |-> analysisOf(results),
   throughput |->
     IF results # <<>>
       THEN throughputOf(Len(results),
                         results[Len(results)].timestamp - results[1].timestamp)
       ELSE Whole(0)]

(***************************************************************************)
(* simulateSimultaneousClicks (simultaneous-clicks and                     *)
(* multi-user-simulator): every user's click is a promise whose timer      *)
(* starts the user's request after a random delay; the function awaits     *)
(* Promise.all of the click promises.                                      *)
(***************************************************************************)
\* options.burst (options.burstTime in the simulator): the window the clicks
\* are announced to fall in.
BurstWindows == {50, 2000}

\* The options the scripts are run with.  multi-user-simulator reads no
\* delay option.
ClickOptions ==
  {[script |-> "simultaneous-clicks", delay |-> d, burst |-> b] :
     d \in {0, SimulatorMaxDelay}, b \in BurstWindows}
  \cup {[script |-> "multi-user-simulator", delay |-> 0, burst |-> b] :
          b \in BurstWindows}

\* const maxDelay = options.delay, and Math.random() * 200 in the simulator.
maxDelayOf(options) ==
  IF options.script = "multi-user-simulator" THEN SimulatorMaxDelay
  ELSE options.delay

\* Math.random() draws from [0, 1): here 0 or 1/2.  setTimeout takes the
\* whole milliseconds of Math.random() * maxDelay.
getRandomDelay(maxDelay) == {(r * maxDelay) \div 2 : r \in {0, 1}}

clickUsers == [i \in 1..MaxClickUsers |-> [email |-> UserEmailList[i]]]

\* A click promise whose timer is set.
TimerSet(delay) == [pc |-> "timer", delay |-> delay, timestamp |-> 0, outcome |-> <<>>]

\* Date.now() - startTime of simulateSimultaneousClicks, which starts at 0.
MaxClickTime == SimulatorMaxDelay

InitClicks ==
  /\ MonitorIdle
  /\ RoundIdle /\ ParallelIdle /\ StressIdle
  /\ clOptions \in ClickOptions
  /\ clPc = "awaiting"
  /\ clClicks \in [1..MaxClickUsers ->
                     {TimerSet(d) : d \in getRandomDelay(maxDelayOf(clOptions))}]
  /\ clOrder = <<>>
  /\ clReturn = <<>>
  /\ clAnalysis = <<>>

\* Timers run in the order of their delays, and in the order they were set
\* when the delays are equal.
TimerDueBefore(j, i) ==
  /\ clClicks[j].pc = "timer"
  /\ \/ clClicks[j].delay < clClicks[i].delay
     \/ clClicks[j].delay = clClicks[i].delay /\ j < i

\* The timer of user i fires: startTime = Date.now() and makePurchase is
\* called.
TimerFires(i) ==
  /\ clPc = "awaiting"
  /\ clClicks[i].pc = "timer"
  /\ clClicks[i].delay <= now
  /\ ~ \E j \in 1..MaxClickUsers : TimerDueBefore(j, i)
  /\ clClicks' = [clClicks EXCEPT ![i] = [@ EXCEPT !.pc = "requesting",
                                                   !.timestamp = now]]
  /\ UNCHANGED <<clOptions, clPc, clOrder, clReturn, clAnalysis, monitorVars, roundVars,
                 ppVars, stVars, anVars>>

\* The record a click resolves with.  error: result.error || null.
clickOutcome(i, result, timestamp, endTime) ==
  [user |-> clickUsers[i].email, success |-> result.success,
   responseTime |-> endTime - timestamp, timestamp |-> timestamp,
   error |-> OrElse(result.error, Null), data |-> OrElse(result.data, Null)]

\* makePurchase resolves for user i and the click promise resolves.  When
\* it is the last one, Promise.all resolves and simulateSimultaneousClicks
\* returns; the results are analysed, by simulateSimultaneousClicks itself
\* in simultaneous-clicks (the analysis field of its return value) and by
\* generateReport in the simulator.
ClickCompletes(i, result) ==
  /\ clPc = "awaiting"
  /\ clClicks[i].pc = "requesting"
  /\ LET clicks == [clClicks EXCEPT ![i] =
                      [@ EXCEPT !.pc = "resolved",
                                !.outcome = clickOutcome(i, result, clClicks[i].timestamp, now)]]
     IN /\ clClicks' = clicks
        /\ clOrder' = Append(clOrder, i)
        /\ IF \A j \in 1..MaxClickUsers : clicks[j].pc = "resolved"
             THEN /\ clReturn' = [results |-> promiseAll(clicks), totalTime |-> now,
                                  startTime |-> 0, endTime |-> now]
                  /\ clAnalysis' =
                       IF clOptions.script = "simultaneous-clicks"
                         THEN analyzeResults(promiseAll(clicks), now)
                         ELSE simulatorAnalyzeResults(promiseAll(clicks))
                  /\ clPc' = "returned"
             ELSE UNCHANGED <<clReturn, clAnalysis, clPc>>
  /\ UNCHANGED <<clOptions, monitorVars, roundVars, ppVars, stVars, anVars>>

\* Time passes while the clicks are awaited.
ClickTick ==
  /\ clPc = "awaiting"
  /\ now < MaxClickTime
  /\ now' = now + TickMs
  /\ UNCHANGED <<metrics, activeRequests, raised, peakSeen, polled, lastEnd,
                 roundVars, ppVars, clVars, stVars, anVars>>

NextClicks ==
  \/ \E i \in 1..MaxClickUsers : TimerFires(i)
  \/ \E i \in 1..MaxClickUsers, r \in PurchaseAnswers : ClickCompletes(i, r)
  \/ ClickTick

SpecClicks == InitClicks /\ [][NextClicks]_vars

(***************************************************************************)
(* stress-test: the burst, sustained, spike and gradual scenarios.  Every  *)
(* makePurchase call is answered after a latency; timers and answers are   *)
(* processed in the order of their times.                                  *)
(***************************************************************************)
Scenarios == {"burst", "sustained", "spike", "gradual"}

\* The time makePurchase takes to resolve, in ms.
ResponseLatencies == {100, 1700}

\* The tenths of the users each spike phase takes: 20%, 100%, 30%.
SpikeShares == <<2, 10, 3>>

\* Math.ceil(a / b) for a >= 0 and b > 0.
ceilDiv(a, b) == (a + b - 1) \div b

\* A variant that takes one user more into every phase or step.
batchSize_oneMore(options, step) ==
  1 + (CASE options.scenario = "burst" -> options.users
         [] options.scenario = "spike" -> ceilDiv(options.users * SpikeShares[step], 10)
         [] options.scenario = "gradual" -> ceilDiv(options.users * step, GradualSteps))

\* The number of users of a phase or step.
batchSize(options, step) ==
  CASE options.scenario = "burst" -> options.users
    [] options.scenario = "spike" -> ceilDiv(options.users * SpikeShares[step], 10)
    [] options.scenario = "gradual" -> ceilDiv(options.users * step, GradualSteps)

\* The number of phases or steps of a scenario.
lastStep(options) ==
  CASE options.scenario = "burst" -> 1
    [] options.scenario = "spike" -> Len(SpikeShares)
    [] options.scenario = "gradual" -> GradualSteps

\* What is drawn for a makePurchase call: its latency, its answer, and for
\* the sustained scenario Math.random() in halves.
Draws == [latency : ResponseLatencies, answer : PurchaseAnswers, rnd : {0, 1}]

\* A call answered 2xx with the smallest latency, for the first user.
Usual(draw) ==
  /\ draw.latency = MinOf(ResponseLatencies)
  /\ draw.answer.success
  /\ draw.rnd = 0

InitStress ==
  /\ MonitorIdle /\ RoundIdle /\ ParallelIdle /\ ClicksIdle
  /\ stOptions \in [scenario : Scenarios, users : 1..MaxStressUsers]
  /\ stPc = "called"
  /\ stNow = 0 /\ stStep = 0 /\ stStart = 0
  /\ stPending = {} /\ stTimers = {} /\ stBatch = <<>> /\ stResults = <<>>
  /\ stIssued = 0 /\ stUnusual = 0 /\ stReturn = <<>>
  /\ anResults = <<>> /\ anOut = <<>>

\* No answer and no timer is due before time t.
IsEarliest(t) ==
  /\ \A q \in stPending : q.due >= t
  /\ \A tm \in stTimers : tm.at >= t

\* burst, and a phase of spike or a step of gradual: users.slice(0, n).map
\* calls makePurchase for each user; then startTime = Date.now() and the
\* Promise.all is awaited.
IssueBatch(draws) ==
  /\ stOptions.scenario \in {"burst", "spike", "gradual"}
  /\ stPc \in {"called", "next"}
  /\ stStep < lastStep(stOptions)
  /\ LET size == batchSize(stOptions, stStep + 1)
         unusual == Cardinality({j \in 1..size : ~Usual(draws[j])})
     IN /\ DOMAIN draws = 1..size
        /\ \A j \in 1..size : draws[j].rnd = 0
        /\ stUnusual + unusual <= MaxUnusual
        /\ stUnusual' = stUnusual + unusual
        /\ stPending' = {[slot |-> j, user |-> UserEmailList[j],
                          due |-> stNow + draws[j].latency,
                          answer |-> draws[j].answer] : j \in 1..size}
        /\ stIssued' = stIssued + size
  /\ stStep' = stStep + 1
  /\ stStart' = stNow
  /\ stBatch' = <<>>
  /\ stPc' = "awaiting"
  /\ UNCHANGED <<stOptions, stNow, stTimers, stResults, stReturn>>
  /\ UNCHANGED <<monitorVars, roundVars, ppVars, clVars, anVars>>

\* The phase or step record pushed to allResults.
batchRecord(scenario, step, count, duration, results) ==
  IF scenario = "spike"
    THEN [phase |-> step, users |-> count, duration |-> duration, results |-> results]
    ELSE [step |-> step, users |-> count, duration |-> duration, results |-> results]

\* allResults.reduce((sum, x) => sum + x.duration, 0)
totalDuration(allResults) ==
  sumSeq([k \in 1..Len(allResults) |-> allResults[k].duration])

\* A makePurchase call of the awaited batch resolves.  With the last one
\* Promise.all resolves: burst returns; spike and gradual push the record
\* of the phase or step, and go on to the next phase, pause before the next
\* step, or return.
BatchRequestCompletes(q) ==
  /\ stPc = "awaiting"
  /\ q \in stPending
  /\ IsEarliest(q.due)
  /\ stNow' = q.due
  /\ stPending' = stPending \ {q}
  /\ LET batch == mapSet(stBatch, q.slot, q.answer)
         size == batchSize(stOptions, stStep)
         record == batchRecord(stOptions.scenario, stStep, size, q.due - stStart, batch)
         all == Append(stResults, record)
     IN IF stPending' # {}
          THEN /\ stBatch' = batch
               /\ UNCHANGED <<stPc, stTimers, stResults, stReturn>>
          ELSE
            /\ stBatch' = <<>>
            /\ CASE stOptions.scenario = "burst" ->
                      /\ stResults' = batch
                      /\ stReturn' = [scenario |-> "burst", duration |-> q.due - stStart,
                                      results |-> batch,
                                      concurrentUsers |-> stOptions.users]
                      /\ stPc' = "returned"
                      /\ UNCHANGED stTimers
                 [] stOptions.scenario = "spike" ->
                      /\ stResults' = all
                      /\ IF stStep < lastStep(stOptions)
                           THEN stPc' = "next" /\ UNCHANGED stReturn
                           ELSE /\ stPc' = "returned"
                                /\ stReturn' = [scenario |-> "spike", phases |-> all,
                                                totalDuration |-> totalDuration(all)]
                      /\ UNCHANGED stTimers
                 [] stOptions.scenario = "gradual" ->
                      /\ stResults' = all
                      /\ IF stStep < GradualSteps
                           THEN /\ stPc' = "pausing"
                                /\ stTimers' = {[kind |-> "pause",
                                                 at |-> q.due + GradualPauseMs]}
                                /\ UNCHANGED stReturn
                           ELSE /\ stPc' = "returned"
                                /\ stReturn' = [scenario |-> "gradual", steps |-> all,
                                                totalDuration |-> totalDuration(all)]
                                /\ UNCHANGED stTimers
  /\ UNCHANGED <<stOptions, stStep, stStart, stIssued, stUnusual>>
  /\ UNCHANGED <<monitorVars, roundVars, ppVars, clVars, anVars>>

\* A variant of the pause that is over as soon as it is set.
PauseEnds_atOnce(tm) ==
  /\ stPc = "pausing"
  /\ tm \in stTimers
  /\ tm.kind = "pause"
  /\ stTimers' = stTimers \ {tm}
  /\ stPc' = "next"
  /\ UNCHANGED <<stOptions, stNow, stStep, stStart, stPending, stBatch, stResults,
                 stIssued, stUnusual, stReturn>>
  /\ UNCHANGED <<monitorVars, roundVars, ppVars, clVars, anVars>>

\* gradual: the pause between two steps is over.
PauseEnds(tm) ==
  /\ stPc = "pausing"
  /\ tm \in stTimers
  /\ tm.kind = "pause"
  /\ IsEarliest(tm.at)
  /\ stNow' = tm.at
  /\ stTimers' = stTimers \ {tm}
  /\ stPc' = "next"
  /\ UNCHANGED <<stOptions, stStep, stStart, stPending, stBatch, stResults, stIssued,
                 stUnusual, stReturn>>
  /\ UNCHANGED <<monitorVars, roundVars, ppVars, clVars, anVars>>

\* sustained, up to its await: the interval timer and the timer of
\* duration + 1000 ms are set.
SustainedStart ==
  /\ stOptions.scenario = "sustained"
  /\ stPc = "called"
  /\ stTimers' = {[kind |-> "interval", at |-> stNow + SustainedIntervalMs],
                  [kind |-> "end",
                   at |-> stNow + SustainedDurationMs + SustainedGraceMs]}
  /\ stPc' = "sustaining"
  /\ UNCHANGED <<stOptions, stNow, stStep, stStart, stPending, stBatch, stResults,
                 stIssued, stUnusual, stReturn>>
  /\ UNCHANGED <<monitorVars, roundVars, ppVars, clVars, anVars>>

\* users[Math.floor(Math.random() * users.length)], Math.random() = rnd / 2.
randomUser(options, rnd) == UserEmailList[((rnd * options.users) \div 2) + 1]

\* A variant of the test that never finds the duration over.
durationOver_never(elapsed) == FALSE

\* Date.now() - startTime >= duration
durationOver(elapsed) == elapsed >= SustainedDurationMs

\* The interval callback: past the duration it clears the interval;
\* otherwise it picks a random user and calls makePurchase.
IntervalFires(tm, draw) ==
  /\ stPc = "sustaining"
  /\ tm \in stTimers
  /\ tm.kind = "interval"
  /\ IsEarliest(tm.at)
  /\ stNow' = tm.at
  /\ IF durationOver(tm.at - stStart)
       THEN /\ Usual(draw)
            /\ stTimers' = stTimers \ {tm}
            /\ UNCHANGED <<stPending, stIssued, stUnusual>>
       ELSE /\ stTimers' = (stTimers \ {tm})
                             \cup {[kind |-> "interval",
                                    at |-> tm.at + SustainedIntervalMs]}
            /\ stUnusual' = IF Usual(draw) THEN stUnusual ELSE stUnusual + 1
            /\ stUnusual' <= MaxUnusual
            /\ stIssued' = stIssued + 1
            /\ stPending' = stPending
                              \cup {[slot |-> stIssued + 1,
                                     user |-> randomUser(stOptions, draw.rnd),
                                     due |-> tm.at + draw.latency,
                                     answer |-> draw.answer]}
  /\ UNCHANGED <<stOptions, stPc, stStep, stStart, stBatch, stResults, stReturn>>
  /\ UNCHANGED <<monitorVars, roundVars, ppVars, clVars, anVars>>

\* sustained: a makePurchase call resolves and its outcome is pushed:
\* results.push({...result, timestamp: Date.now(), user}).
SustainedRequestCompletes(q) ==
  /\ stPc = "sustaining"
  /\ q \in stPending
  /\ IsEarliest(q.due)
  /\ stNow' = q.due
  /\ stPending' = stPending \ {q}
  /\ stResults' = Append(stResults, [success |-> q.answer.success,
                                     error |-> q.answer.error,
                                     timestamp |-> q.due, user |-> q.user])
  /\ UNCHANGED <<stOptions, stPc, stStep, stStart, stTimers, stBatch, stIssued,
                 stUnusual, stReturn>>
  /\ UNCHANGED <<monitorVars, roundVars, ppVars, clVars, anVars>>

\* sustained: the timer of duration + 1000 ms fires and the scenario
\* returns its results array as it is.
SustainedReturns(tm) ==
  /\ stPc = "sustaining"
  /\ tm \in stTimers
  /\ tm.kind = "end"
  /\ IsEarliest(tm.at)
  /\ stNow' = tm.at
  /\ stTimers' = stTimers \ {tm}
  /\ stReturn' = [scenario |-> "sustained", duration |-> SustainedDurationMs,
                  results |-> stResults,
                  requestsPerSecond |->
                    jsDiv(Len(stResults) * 1000, SustainedDurationMs)]
  /\ stPc' = "returned"
  /\ UNCHANGED <<stOptions, stStep, stStart, stPending, stBatch, stResults, stIssued,
                 stUnusual>>
  /\ UNCHANGED <<monitorVars, roundVars, ppVars, clVars, anVars>>

\* The draws for the users of a batch.
BatchDraws == UNION {[1..n -> {d \in Draws : d.rnd = 0}] : n \in 1..MaxStressUsers}

NextStress ==
  \/ \E draws \in BatchDraws : IssueBatch(draws)
  \/ \E q \in stPending : BatchRequestCompletes(q)
  \/ \E tm \in stTimers : PauseEnds(tm)
  \/ SustainedStart
  \/ \E tm \in stTimers, draw \in Draws : IntervalFires(tm, draw)
  \/ \E q \in stPending : SustainedRequestCompletes(q)
  \/ \E tm \in stTimers : SustainedReturns(tm)

SpecStress == InitStress /\ [][NextStress]_vars

(***************************************************************************)
(* The analysis functions applied to lists of outcomes, the empty list     *)
(* included: analyzeResults of simultaneous-clicks and of the simulator,   *)
(* analyzeScenarioResults of stress-test, and getMetrics of a tracker that *)
(* saw the outcomes one after the other.                                   *)
(***************************************************************************)
RECURSIVE flatMapResults(_)
\* phases.flatMap(phase => phase.results)
flatMapResults(records) ==
  IF records = <<>> THEN <<>>
  ELSE records[1].results \o flatMapResults(Tail(records))

\* analyzeScenarioResults(scenarioResult)
analyzeScenarioResults(scenarioResult) ==
  LET allResults ==
        CASE scenarioResult.scenario \in {"burst", "sustained"} -> scenarioResult.results
          [] scenarioResult.scenario = "spike" -> flatMapResults(scenarioResult.phases)
          [] scenarioResult.scenario = "gradual" -> flatMapResults(scenarioResult.steps)
      successful == SelectSeq(allResults, LAMBDA r : r.success)
      failed == SelectSeq(allResults, LAMBDA r : ~r.success)
  IN [total |-> Len(allResults),
      successful |-> Len(successful),
      failed |-> Len(failed),
      successRate |-> jsDiv(Len(successful) * 100, Len(allResults)),
      errorGroups |-> groupErrors(failed),
      scenario |-> scenarioResult.scenario]

\* The outcomes the functions are applied to.
OutcomeSamples ==
  {[user |-> UserEmailList[1], success |-> TRUE, responseTime |-> 100,
    timestamp |-> 0, error |-> Null],
   [user |-> UserEmailList[2], success |-> TRUE, responseTime |-> 200,
    timestamp |-> 100, error |-> Null],
   [user |-> UserEmailList[3], success |-> FALSE, responseTime |-> 100,
    timestamp |-> 0, error |-> Str(T_InvalidEmail)],
   [user |-> UserEmailList[4], success |-> FALSE, responseTime |-> 200,
    timestamp |-> 100, error |-> Null]}

\* The total times analyzeResults of simultaneous-clicks is called with.
TotalTimes == {0, 1000}

RECURSIVE monitorAfter(_, _)
\* The tracker after the outcomes were started and ended one by one.
monitorAfter(mon, results) ==
  IF results = <<>> THEN mon
  ELSE LET r == results[1]
           id == <<r.timestamp, 0>>
           started == startRequest(mon, id, r.user, r.timestamp)
           ended == endRequest(started, id, r.success, r.responseTime, r.error,
                               r.timestamp + r.responseTime)
       IN monitorAfter([metrics |-> ended.metrics,
                        activeRequests |-> ended.activeRequests], Tail(results))

InitAnalysis ==
  /\ MonitorIdle /\ RoundIdle /\ ParallelIdle /\ ClicksIdle
  /\ stOptions = <<>> /\ stPc = "none" /\ stNow = 0 /\ stStep = 0 /\ stStart = 0
  /\ stPending = {} /\ stTimers = {} /\ stBatch = <<>> /\ stResults = <<>>
  /\ stIssued = 0 /\ stUnusual = 0 /\ stReturn = <<>>
  /\ anResults \in UNION {[1..n -> OutcomeSamples] : n \in 0..MaxOutcomes}
  /\ anOut = <<>>

\* What an application leaves: the function, and the total, the successes
\* and the success rate it reported.
Reported(fn, total, successful, successRate) ==
  [fn |-> fn, total |-> total, successful |-> successful, successRate |-> successRate]

ApplyAnalyzeResults(totalTime) ==
  /\ LET a == analyzeResults(anResults, totalTime).analysis
     IN anOut' = Reported("analyzeResults", a.total, a.successful, a.successRate)
  /\ UNCHANGED <<anResults, monitorVars, roundVars, ppVars, clVars, stVars>>

ApplySimulatorAnalyzeResults ==
  /\ LET a == simulatorAnalyzeResults(anResults).analysis
     IN anOut' = Reported("simulatorAnalyzeResults", a.total, a.successful,
                          a.successRate)
  /\ UNCHANGED <<anResults, monitorVars, roundVars, ppVars, clVars, stVars>>

ApplyAnalyzeScenarioResults(scenario) ==
  /\ LET a == analyzeScenarioResults([scenario |-> scenario, results |-> anResults])
     IN anOut' = Reported("analyzeScenarioResults", a.total, a.successful,
                          a.successRate)
  /\ UNCHANGED <<anResults, monitorVars, roundVars, ppVars, clVars, stVars>>

\* getMetrics reports the rate rounded to hundredths of a percent.
ApplyGetMetrics ==
  /\ LET g == getMetrics(monitorAfter(NewMonitor, anResults))
     IN anOut' = Reported("getMetrics", g.totalRequests, g.successfulRequests,
                          jsDiv(g.successRate100, 100))
  /\ UNCHANGED <<anResults, monitorVars, roundVars, ppVars, clVars, stVars>>

NextAnalysis ==
  \/ \E t \in TotalTimes : ApplyAnalyzeResults(t)
  \/ ApplySimulatorAnalyzeResults
  \/ \E sc \in {"burst", "sustained"} : ApplyAnalyzeScenarioResults(sc)
  \/ ApplyGetMetrics

SpecAnalysis == InitAnalysis /\ [][NextAnalysis]_vars

(***************************************************************************)
(* makePurchase and simulateUserClick applied to the answers of the        *)
(* reservation service, call after call.                                   *)
(***************************************************************************)
\* The calls followed.
MaxCalls == 2

\* What the HTTP call can do: the outcomes above, a 2xx answer without a
\* body, an error status whose body has no message or an empty one, and a
\* network error with a message.
ServerAnswers ==
  HttpOutcomes
  \cup {[kind |-> "ok", message |-> Undefined, errmsg |-> Undefined,
         data |-> Str(<<>>)]}
  \cup {[kind |-> "status", message |-> m, errmsg |-> Str(T_Status400),
         data |-> Undefined] : m \in {Undefined, Str(<<>>)}}
  \cup {[kind |-> "network", message |-> Undefined, errmsg |-> Str(T_NetworkError),
         data |-> Undefined]}

\* A variant that lets the exception of a call without response through.
makePurchaseCall_rethrow(http) ==
  IF http.kind = "network"
    THEN [settled |-> "rejected", value |-> http.errmsg]
    ELSE [settled |-> "fulfilled", value |-> makePurchase(http)]

\* The promise makePurchase returns: the whole body is one try block whose
\* catch block returns, so the promise is fulfilled on every path.
makePurchaseCall(http) == [settled |-> "fulfilled", value |-> makePurchase(http)]

\* simulateUserClick(user, config, options): the outcome it resolves with,
\* from the try block when makePurchase is fulfilled and from the catch block
\* when it is rejected.
simulateUserClick(i, http, startTime, endTime) ==
  LET call == makePurchaseCall(http)
  IN IF call.settled = "fulfilled"
       THEN clickOutcome(i, call.value, startTime, endTime)
       ELSE [user |-> clickUsers[i].email, success |-> FALSE,
             responseTime |-> endTime - startTime, timestamp |-> startTime,
             error |-> call.value, data |-> Null]

InitPurchase ==
  /\ MonitorIdle /\ RoundIdle /\ ParallelIdle /\ ClicksIdle /\ StressIdle

ApplyMakePurchase(http) ==
  /\ Len(anResults) < MaxCalls
  /\ anResults' = Append(anResults, http)
  /\ anOut' = [fn |-> "makePurchase", answer |-> http,
               returned |-> makePurchaseCall(http)]
  /\ UNCHANGED <<monitorVars, roundVars, ppVars, clVars, stVars>>

ApplySimulateUserClick(http, endTime) ==
  /\ Len(anResults) < MaxCalls
  /\ anResults' = Append(anResults, http)
  /\ anOut' = [fn |-> "simulateUserClick", answer |-> http,
               returned |-> simulateUserClick(1, http, 0, endTime)]
  /\ UNCHANGED <<monitorVars, roundVars, ppVars, clVars, stVars>>

NextPurchase ==
  \/ \E h \in ServerAnswers : ApplyMakePurchase(h)
  \/ \E h \in ServerAnswers, t \in {0, TickMs} : ApplySimulateUserClick(h, t)

SpecPurchase == InitPurchase /\ [][NextPurchase]_vars

(***************************************************************************)
(* The entry points: main of stress-test (scenario burst, one iteration),  *)
(* of simultaneous-clicks and of multi-user-simulator, started with a      *)
(* readable configuration and a client list of 0 or more users.            *)
(***************************************************************************)
EntryScripts == {"stress-test", "simultaneous-clicks", "multi-user-simulator"}

\* config.users.length, and --simulate-users for the simulator.
EntryOptions == [script : EntryScripts, users : 0..MaxClickUsers]

\* A request main is waiting for: its timer set, its HTTP call made, or
\* its outcome there.
EntryClick(pc) == [pc |-> pc, delay |-> 0, timestamp |-> 0, outcome |-> <<>>]

InitEntry ==
  /\ MonitorIdle /\ RoundIdle /\ ParallelIdle /\ StressIdle
  /\ clOptions \in EntryOptions
  /\ clPc = "main"
  /\ clClicks = <<>>
  /\ clOrder = <<>>
  /\ clReturn = <<>>
  /\ clAnalysis = <<>>

\* main up to its first await inside the simulation.  stress-test and
\* simultaneous-clicks throw on an empty list and main's catch exits with
\* status 1; the simulator generates argv.simulateUsers users and goes on.
\* burstScenario calls makePurchase for every user at once; the click
\* simulations set one timer per user.  Promise.all of an empty list
\* resolves with an empty list.
EntryMain ==
  /\ clPc = "main"
  /\ IF clOptions.script # "multi-user-simulator" /\ clOptions.users = 0
       THEN /\ clPc' = "exit1"
            /\ UNCHANGED <<clClicks, clReturn>>
       ELSE /\ clClicks' = [i \in 1..clOptions.users |->
                              EntryClick(IF clOptions.script = "stress-test"
                                           THEN "requesting" ELSE "timer")]
            /\ IF clOptions.users = 0
                 THEN /\ clPc' = "returned"
                      /\ clReturn' = [results |-> <<>>, totalTime |-> 0,
                                      startTime |-> 0, endTime |-> 0]
                 ELSE /\ clPc' = "awaiting"
                      /\ UNCHANGED clReturn
  /\ UNCHANGED <<clOptions, clOrder, clAnalysis, monitorVars, roundVars, ppVars,
                 stVars, anVars>>

\* The timer of user i fires and makePurchase is called.
EntryTimerFires(i) ==
  /\ clPc = "awaiting"
  /\ clClicks[i].pc = "timer"
  /\ \A j \in 1..(i - 1) : clClicks[j].pc # "timer"
  /\ clClicks' = [clClicks EXCEPT ![i].pc = "requesting"]
  /\ UNCHANGED <<clOptions, clPc, clOrder, clReturn, clAnalysis, monitorVars,
                 roundVars, ppVars, stVars, anVars>>

\* makePurchase resolves for user i; with the last one Promise.all resolves
\* and the simulation returns to main.
EntryCompletes(i, result) ==
  /\ clPc = "awaiting"
  /\ clClicks[i].pc = "requesting"
  /\ LET outcome == IF clOptions.script = "stress-test"
                      THEN result
                      ELSE clickOutcome(i, result, 0, 0)
         clicks == [clClicks EXCEPT ![i] = [@ EXCEPT !.pc = "resolved",
                                                     !.outcome = outcome]]
     IN /\ clClicks' = clicks
        /\ clOrder' = Append(clOrder, i)
        /\ IF \A j \in 1..Len(clicks) : clicks[j].pc = "resolved"
             THEN /\ clReturn' = [results |-> promiseAll(clicks), totalTime |-> 0,
                                  startTime |-> 0, endTime |-> 0]
                  /\ clPc' = "returned"
             ELSE UNCHANGED <<clReturn, clPc>>
  /\ UNCHANGED <<clOptions, clAnalysis, monitorVars, roundVars, ppVars, stVars, anVars>>

\* generateReport / generateStressTestReport print the analysis of the
\* results, and main calls process.exit(0).
EntryReport ==
  /\ clPc = "returned"
  /\ clAnalysis' =
       CASE clOptions.script = "stress-test" ->
              analyzeScenarioResults([scenario |-> "burst",
                                      results |-> clReturn.results])
         [] clOptions.script = "simultaneous-clicks" ->
              analyzeResults(clReturn.results, clReturn.totalTime)
         [] clOptions.script = "multi-user-simulator" ->
              simulatorAnalyzeResults(clReturn.results)
  /\ clPc' = "exit0"
  /\ UNCHANGED <<clOptions, clClicks, clOrder, clReturn, monitorVars, roundVars,
                 ppVars, stVars, anVars>>

NextEntry ==
  \/ EntryMain
  \/ \E i \in 1..MaxClickUsers : i <= Len(clClicks) /\ EntryTimerFires(i)
  \/ \E i \in 1..MaxClickUsers, r \in PurchaseAnswers :
       i <= Len(clClicks) /\ EntryCompletes(i, r)
  \/ EntryReport

SpecEntry == InitEntry /\ [][NextEntry]_vars

(***************************************************************************)
(* main of multi-users, started with a readable configuration that lists   *)
(* at least one user.  The statement after parseArgs() evaluates the       *)
(* identifier B, which nothing declares: a ReferenceError inside the try   *)
(* block, so the statements that follow it are never reached.              *)
(***************************************************************************)
\* The command line and the configuration main is started with.
MultiUsersOptions ==
  [users : 1..MaxParallelUsers, concurrent : 0..MaxConcurrent,
   testSize : TestSizes, debug : BOOLEAN]

InitMultiUsers ==
  /\ MonitorIdle /\ RoundIdle /\ ClicksIdle /\ StressIdle
  /\ ppOptions \in MultiUsersOptions
  /\ ppPc = "main"
  /\ ppI = 0
  /\ ppProc = [u \in 1..ppOptions.users |-> WaitingProc]
  /\ ppResults = <<>>

\* try { const argv = parseArgs(); B ...: parseArgs returns, B throws, and
\* control passes to the catch block.
MainParseArgs ==
  /\ ppPc = "main"
  /\ ppPc' = "catch"
  /\ UNCHANGED <<ppOptions, ppI, ppProc, ppResults, monitorVars, roundVars, clVars,
                 stVars, anVars>>

\* catch (error) { logger.error(...); process.exit(1) }
MainCatch ==
  /\ ppPc = "catch"
  /\ ppPc' = "exit1"
  /\ UNCHANGED <<ppOptions, ppI, ppProc, ppResults, monitorVars, roundVars, clVars,
                 stVars, anVars>>

NextMultiUsers ==
  \/ MainParseArgs
  \/ MainCatch

\* main runs on the event loop, which runs every continuation that is ready.
SpecMultiUsers ==
  InitMultiUsers /\ [][NextMultiUsers]_vars /\ WF_vars(NextMultiUsers)

(***************************************************************************)
(* simulateMultipleTransactions (multi-users-simple): rounds of one        *)
(* transaction per user that still has transactions left, each user with   *)
(* its own test size.                                                      *)
(***************************************************************************)
\* The selected users, and the largest TEST_SIZE of the configuration.
MaxSimpleUsers == 2
MaxTestSize == 2

\* users[k].testSize for the selected users.
SimpleOptions ==
  UNION {[testSizes : [1..n -> 0..MaxTestSize]] : n \in 1..MaxSimpleUsers}

\* Math.max(...users.map(u => u.testSize))
maxTestSize(options) ==
  CHOOSE m \in 0..MaxTestSize :
    /\ \E u \in DOMAIN options.testSizes : options.testSizes[u] = m
    /\ \A u \in DOMAIN options.testSizes : options.testSizes[u] <= m

\* users.filter(user => transaction < user.testSize), as user indexes.
activeUsers(options, transaction) ==
  {u \in DOMAIN options.testSizes : transaction < options.testSizes[u]}

\* A variant of Promise.all that resolves with the first promise resolved.
allResolved_any(requests) == \E q \in requests : q.pc = "resolved"

\* Promise.all(promises) resolves when every promise of the round has.
allResolved(requests) == \A q \in requests : q.pc = "resolved"

InitSimple ==
  /\ MonitorIdle /\ RoundIdle /\ ClicksIdle /\ StressIdle
  /\ ppOptions \in SimpleOptions
  /\ ppPc = "loop"
  /\ ppI = 0
  /\ ppProc = {}
  /\ ppResults = <<>>

\* for (transaction < maxTestSize): one promise with a timer of a random
\* delay for every active user, then await Promise.all.
SimpleRoundStart ==
  /\ ppPc = "loop"
  /\ ppI < maxTestSize(ppOptions)
  /\ IF activeUsers(ppOptions, ppI) = {}
       THEN ppPc' = "done" /\ UNCHANGED ppProc
       ELSE /\ ppProc' = ppProc \cup {[user |-> u, transaction |-> ppI + 1,
                                       pc |-> "timer", outcome |-> <<>>] :
                                        u \in activeUsers(ppOptions, ppI)}
            /\ ppPc' = "awaiting"
  /\ UNCHANGED <<ppOptions, ppI, ppResults, monitorVars, roundVars, clVars, stVars, anVars>>

\* The timer of a promise fires, in any order: makePurchase is called.
SimpleTimerFires(q) ==
  /\ q \in ppProc
  /\ q.pc = "timer"
  /\ ppProc' = (ppProc \ {q}) \cup {[q EXCEPT !.pc = "requesting"]}
  /\ UNCHANGED <<ppOptions, ppPc, ppI, ppResults, monitorVars, roundVars, clVars, stVars, anVars>>

\* makePurchase resolves and the promise resolves with its record.  When
\* Promise.all resolves, the records of the round are pushed in the order of
\* the users; then the pause of one second, except after the last round.
SimpleCompletes(q, result) ==
  /\ ppPc = "awaiting"
  /\ q \in ppProc
  /\ q.pc = "requesting"
  /\ LET outcome == [success |-> result.success, user |-> q.user,
                     transaction |-> q.transaction, error |-> result.error]
         requests == (ppProc \ {q})
                       \cup {[q EXCEPT !.pc = "resolved", !.outcome = outcome]}
         round == {r \in requests : r.transaction = ppI + 1}
         order == seqOfSet({r.user : r \in {x \in round : x.pc = "resolved"}})
         outcomeOf(u) == (CHOOSE r \in round : r.user = u /\ r.pc = "resolved").outcome
     IN IF allResolved(round)
          THEN /\ ppResults' = ppResults \o [k \in 1..Len(order) |-> outcomeOf(order[k])]
               /\ ppProc' = {r \in requests : r.pc # "resolved"}
               /\ ppI' = ppI + 1
               /\ ppPc' = IF ppI < maxTestSize(ppOptions) - 1 THEN "pausing" ELSE "loop"
          ELSE /\ ppProc' = requests
               /\ UNCHANGED <<ppResults, ppI, ppPc>>
  /\ UNCHANGED <<ppOptions, monitorVars, roundVars, clVars, stVars, anVars>>

\* The pause between two rounds is over.
SimplePauseEnds ==
  /\ ppPc = "pausing"
  /\ ppPc' = "loop"
  /\ UNCHANGED <<ppOptions, ppI, ppProc, ppResults, monitorVars, roundVars, clVars, stVars, anVars>>

\* The loop is over: return allResults.
SimpleReturn ==
  /\ ppPc = "loop"
  /\ ~(ppI < maxTestSize(ppOptions))
  /\ ppPc' = "done"
  /\ UNCHANGED <<ppOptions, ppI, ppProc, ppResults, monitorVars, roundVars, clVars, stVars, anVars>>

NextSimple ==
  \/ SimpleRoundStart
  \/ \E q \in ppProc : SimpleTimerFires(q)
  \/ \E q \in ppProc, r \in PurchaseAnswers : SimpleCompletes(q, r)
  \/ SimplePauseEnds
  \/ SimpleReturn

SpecSimple == InitSimple /\ [][NextSimple]_vars

(***************************************************************************)
(* index.js: loadConfig reads TEST_SIZE from the configuration file and    *)
(* runSimulation makes that many purchases in a for loop, awaiting each.   *)
(* The state is held in the pp variables: ppOptions is the loaded          *)
(* configuration, ppI the loop counter, ppProc the purchases in flight     *)
(* and ppResults the results object.                                       *)
(***************************************************************************)
\* The digits a TEST_SIZE line is written with.
DigitValue ==
  [c \in {"0", "1", "2", "3", "4", "5", "6", "7", "8", "9"} |->
     CASE c = "0" -> 0 [] c = "1" -> 1 [] c = "2" -> 2 [] c = "3" -> 3
       [] c = "4" -> 4 [] c = "5" -> 5 [] c = "6" -> 6 [] c = "7" -> 7
       [] c = "8" -> 8 [] c = "9" -> 9]

DigitOf(n) == CHOOSE c \in DOMAIN DigitValue : DigitValue[c] = n

\* The value of the configuration line TEST_SIZE=..., trimmed and not
\* empty, or undefined when the file has no such line.
TestSizeTexts ==
  LET digits == {c \in DOMAIN DigitValue : DigitValue[c] <= MaxTestSize}
  IN {Undefined}
       \cup {Str(<<c>>) : c \in digits}
       \cup {Str(<<"-", c>>) : c \in digits}
       \cup {Str(<<c, "a">>) : c \in digits}
       \cup {Str(<<"a">>)}

\* The longest prefix of digits of a text, as a number (0 when empty).
RECURSIVE leadingDigits(_, _)
leadingDigits(s, acc) ==
  IF s = <<>> \/ Head(s) \notin DOMAIN DigitValue
    THEN acc
    ELSE leadingDigits(Tail(s), 10 * acc + DigitValue[Head(s)])

\* parseInt(s, 10) of a trimmed text: an optional sign, then the leading
\* digits; NaN when there is no digit.
parseInt(s) ==
  LET negative == s # <<>> /\ Head(s) = "-"
      body == IF negative THEN Tail(s) ELSE s
  IN IF body = <<>> \/ Head(body) \notin DOMAIN DigitValue
       THEN NaN
       ELSE Whole((IF negative THEN -1 ELSE 1) * leadingDigits(body, 0))

\* String(n) of a whole number or NaN.
RECURSIVE digitsOf(_)
digitsOf(n) ==
  IF n < 10 THEN <<DigitOf(n)>> ELSE Append(digitsOf(n \div 10), DigitOf(n % 10))

numberToString(v) ==
  IF v.kind = "NaN"
    THEN <<"N", "a", "N">>
    ELSE IF v.num < 0 THEN <<"-">> \o digitsOf(-v.num) ELSE digitsOf(v.num)

\* config.TEST_SIZE = config.TEST_SIZE ? parseInt(config.TEST_SIZE, 10) : 1
loadedTestSize(text) == IF Truthy(text) THEN parseInt(text.text) ELSE Whole(1)

\* i < results.total: false when total is NaN.
belowTotal(i, total) == total.kind = "number" /\ i < total.num

InitSimulation ==
  /\ MonitorIdle /\ RoundIdle /\ ClicksIdle /\ StressIdle
  /\ ppOptions \in {[TEST_SIZE |-> loadedTestSize(t)] : t \in TestSizeTexts}
  /\ ppPc = "start"
  /\ ppI = 0
  /\ ppProc = {}
  /\ ppResults = <<>>

\* const results = { total: parseInt(config.TEST_SIZE, 10), successful: 0,
\* failed: 0, errors: [] }; parseInt converts its argument to a string.
SimulationStart ==
  /\ ppPc = "start"
  /\ ppResults' = [total |-> parseInt(numberToString(ppOptions.TEST_SIZE)),
                   successful |-> 0, failed |-> 0, errors |-> <<>>]
  /\ ppPc' = "loop"
  /\ UNCHANGED <<ppOptions, ppI, ppProc, monitorVars, roundVars, clVars, stVars, anVars>>

\* for (i < results.total): await makePurchase(...)
SimulationPurchase ==
  /\ ppPc = "loop"
  /\ belowTotal(ppI, ppResults.total)
  /\ ppProc' = ppProc \cup {[index |-> ppI + 1]}
  /\ ppPc' = "awaiting"
  /\ UNCHANGED <<ppOptions, ppI, ppResults, monitorVars, roundVars, clVars, stVars, anVars>>

\* The awaited makePurchase settles: the result is counted and the loop
\* waits 500 ms; a rejection is counted in the catch block, without a wait.
SimulationSettles(http) ==
  /\ ppPc = "awaiting"
  /\ LET call == makePurchaseCall(http)
         entry(error) == [index |-> ppI + 1, error |-> error]
     IN /\ ppProc' = ppProc \ {[index |-> ppI + 1]}
        /\ IF call.settled = "fulfilled"
             THEN /\ ppResults' =
                       IF call.value.success
                         THEN [ppResults EXCEPT !.successful = @ + 1]
                         ELSE [ppResults EXCEPT
                                 !.failed = @ + 1,
                                 !.errors = Append(@, entry(call.value.error))]
                  /\ ppPc' = "delaying"
                  /\ UNCHANGED ppI
             ELSE /\ ppResults' = [ppResults EXCEPT
                                     !.failed = @ + 1,
                                     !.errors = Append(@, entry(call.value))]
                  /\ ppPc' = "loop"
                  /\ ppI' = ppI + 1
  /\ UNCHANGED <<ppOptions, monitorVars, roundVars, clVars, stVars, anVars>>

\* The timer of 500 ms fires: i++.
SimulationDelayEnds ==
  /\ ppPc = "delaying"
  /\ ppI' = ppI + 1
  /\ ppPc' = "loop"
  /\ UNCHANGED <<ppOptions, ppProc, ppResults, monitorVars, roundVars, clVars, stVars, anVars>>

\* The loop is over: return results.
SimulationReturn ==
  /\ ppPc = "loop"
  /\ ~belowTotal(ppI, ppResults.total)
  /\ ppPc' = "returned"
  /\ UNCHANGED <<ppOptions, ppI, ppProc, ppResults, monitorVars, roundVars, clVars, stVars, anVars>>

NextSimulation ==
  \/ SimulationStart
  \/ SimulationPurchase
  \/ \E http \in HttpOutcomes : SimulationSettles(http)
  \/ SimulationDelayEnds
  \/ SimulationReturn

SpecSimulation == InitSimulation /\ [][NextSimulation]_vars

(***************************************************************************)
(* complete-test-suite: runCompleteTestSuite spawns four child scripts,    *)
(* awaits each one (runScript) and pauses three seconds between them.      *)
(* ppOptions holds the options, ppI the number of the test, ppProc the     *)
(* child processes that were spawned and whose event has not been handled, *)
(* and ppResults the results array.                                        *)
(***************************************************************************)
MaxExitCode == 1

\* The four tests in the order of the code: type of the record, script and
\* the arguments that tell the tests apart.
SuiteTests ==
  <<[testType |-> "simultaneous-clicks", script |-> "./simultaneous-clicks.js",
     args |-> <<"--tokens", "--burst", "2000", "--delay", "100">>],
    [testType |-> "stress-burst", script |-> "./stress-test.js",
     args |-> <<"--scenario", "burst", "--iterations", "3">>],
    [testType |-> "stress-sustained", script |-> "./stress-test.js",
     args |-> <<"--scenario", "sustained", "--iterations", "2">>],
    [testType |-> "concurrency-monitor", script |-> "./concurrency-monitor.js",
     args |-> <<"--duration", "15", "--monitor-interval", "2000">>]>>

SuiteOptions == [project : BOOLEAN, debug : BOOLEAN]

\* if (options.project) args.push('--project', ...); if (options.debug) ...
suiteArgs(test, options) ==
  test.args \o (IF options.project THEN <<"--project">> ELSE <<>>)
            \o (IF options.debug THEN <<"--debug">> ELSE <<>>)

\* What happens to a spawned child: it exits with a code, it is ended by a
\* signal (the code of 'close' is null), or it cannot be spawned ('error').
ChildEnds ==
  {[pc |-> "exited", code |-> c] : c \in 0..MaxExitCode}
  \cup {[pc |-> "killed", code |-> 0], [pc |-> "failed", code |-> 0]}

\* A variant that takes every closed child for a success.
closeSuccess_always(child) == TRUE

\* success: code === 0, with code null for a child ended by a signal.
closeSuccess(child) == child.pc = "exited" /\ child.code = 0

InitSuite ==
  /\ MonitorIdle /\ RoundIdle /\ ClicksIdle /\ StressIdle
  /\ ppOptions \in SuiteOptions
  /\ ppPc = "test"
  /\ ppI = 1
  /\ ppProc = {}
  /\ ppResults = <<>>

\* try { ... await runScript(script, args): spawn('node', [script, ...args])
SuiteSpawn ==
  /\ ppPc = "test"
  /\ ppProc' = ppProc \cup {[test |-> ppI, script |-> SuiteTests[ppI].script,
                             args |-> suiteArgs(SuiteTests[ppI], ppOptions),
                             pc |-> "running", code |-> 0]}
  /\ ppPc' = "awaiting"
  /\ UNCHANGED <<ppOptions, ppI, ppResults, monitorVars, roundVars, clVars, stVars, anVars>>

\* The child process ends, or fails to start.
ChildEnd(child, end) ==
  /\ child \in ppProc
  /\ child.pc = "running"
  /\ ppProc' = (ppProc \ {child}) \cup {[child EXCEPT !.pc = end.pc, !.code = end.code]}
  /\ UNCHANGED <<ppOptions, ppPc, ppI, ppResults, monitorVars, roundVars, clVars, stVars, anVars>>

\* The 'close' handler resolves the promise, or the 'error' handler rejects
\* it; runCompleteTestSuite pushes the metrics with success = code === 0, or
\* in the catch block a record with success false and the error message.
\* After the fourth test it returns, otherwise it pauses.
SuiteChildEvent(child) ==
  /\ ppPc = "awaiting"
  /\ child \in ppProc
  /\ child.pc # "running"
  /\ child.test = ppI
  /\ ppProc' = ppProc \ {child}
  /\ ppResults' =
       Append(ppResults,
              IF child.pc = "failed"
                THEN [testType |-> SuiteTests[ppI].testType, success |-> FALSE,
                      error |-> TRUE]
                ELSE [testType |-> SuiteTests[ppI].testType,
                      success |-> closeSuccess(child), error |-> FALSE])
  /\ ppPc' = IF ppI = Len(SuiteTests) THEN "returned" ELSE "pausing"
  /\ UNCHANGED <<ppOptions, ppI, monitorVars, roundVars, clVars, stVars, anVars>>

\* await new Promise(resolve => setTimeout(resolve, 3000))
SuitePauseEnds ==
  /\ ppPc = "pausing"
  /\ ppI' = ppI + 1
  /\ ppPc' = "test"
  /\ UNCHANGED <<ppOptions, ppProc, ppResults, monitorVars, roundVars, clVars, stVars, anVars>>

NextSuite ==
  \/ SuiteSpawn
  \/ \E child \in ppProc, end \in ChildEnds : ChildEnd(child, end)
  \/ \E child \in ppProc : SuiteChildEvent(child)
  \/ SuitePauseEnds

SpecSuite == InitSuite /\ [][NextSuite]_vars

(***************************************************************************)
(* logger: configure(userConfig) sets the level, log(level, message)       *)
(* emits a message when its level is not above the configured one.         *)
(* ppOptions is the userConfig, ppResults the logger's config, ppProc the  *)
(* calls of log made so far (with whether the message was emitted) and     *)
(* ppI their number.                                                       *)
(***************************************************************************)
MaxLogCalls == 2

T_ERROR == <<"E", "R", "R", "O", "R">>
T_WARN == <<"W", "A", "R", "N">>
T_INFO == <<"I", "N", "F", "O">>
T_DEBUG == <<"D", "E", "B", "U", "G">>

\* const LOG_LEVELS = { ERROR: 0, WARN: 1, INFO: 2, DEBUG: 3 }: the value of
\* the property of that name, undefined for any other name.
LOG_LEVELS(name) ==
  CASE name = T_ERROR -> Whole(0)
    [] name = T_WARN -> Whole(1)
    [] name = T_INFO -> Whole(2)
    [] name = T_DEBUG -> Whole(3)
    [] OTHER -> Undefined

\* DEFAULT_CONFIG
DEFAULT_CONFIG == [level |-> LOG_LEVELS(T_INFO), enableConsole |-> TRUE]

\* String.prototype.toUpperCase, on the letters the level names use.
UpperOf == [c \in {"a", "b", "c", "d", "e", "f", "g", "i", "n", "o", "r", "t", "u", "w"} |->
              CASE c = "a" -> "A" [] c = "b" -> "B" [] c = "c" -> "C"
                [] c = "d" -> "D" [] c = "e" -> "E" [] c = "f" -> "F"
                [] c = "g" -> "G" [] c = "i" -> "I" [] c = "n" -> "N"
                [] c = "o" -> "O" [] c = "r" -> "R" [] c = "t" -> "T"
                [] c = "u" -> "U" [] c = "w" -> "W"]

toUpperCase(s) == [i \in 1..Len(s) |-> IF s[i] \in DOMAIN UpperOf THEN UpperOf[s[i]] ELSE s[i]]

\* The level a caller passes: a level name in some letter case, a name
\* that is no level, or no level at all.
LevelNames ==
  {T_ERROR, <<"e", "r", "r", "o", "r">>, <<"E", "r", "r", "o", "r">>,
   T_WARN, <<"w", "a", "r", "n">>, <<"W", "a", "r", "n">>,
   T_INFO, <<"i", "n", "f", "o">>, <<"I", "n", "f", "o">>,
   T_DEBUG, <<"d", "e", "b", "u", "g">>, <<"D", "e", "b", "u", "g">>,
   <<"t", "r", "a", "c", "e">>}

UserConfigs == {[level |-> Str(n)] : n \in LevelNames} \cup {[level |-> Undefined]}

\* a || b for a level: the number 0 and undefined are falsy.
levelOrElse(a, b) == IF a.kind = "number" /\ a.num # 0 THEN a ELSE b

\* config = { ...DEFAULT_CONFIG, ...userConfig }; a level given as a string
\* becomes LOG_LEVELS[level.toUpperCase()] || DEFAULT_CONFIG.level.
configure(userConfig) ==
  LET merged == IF userConfig.level = Undefined
                  THEN DEFAULT_CONFIG
                  ELSE [DEFAULT_CONFIG EXCEPT !.level = userConfig.level]
  IN IF merged.level.kind = "string"
       THEN [merged EXCEPT !.level = levelOrElse(LOG_LEVELS(toUpperCase(merged.level.text)),
                                                 DEFAULT_CONFIG.level)]
       ELSE merged

\* log(level, message): if (level > config.level) return; else the message
\* goes to the console and the log file.
logEmits(level, config) == ~(level > config.level.num)

InitLogger ==
  /\ MonitorIdle /\ RoundIdle /\ ClicksIdle /\ StressIdle
  /\ ppOptions \in UserConfigs
  /\ ppPc = "start"
  /\ ppI = 0
  /\ ppProc = {}
  /\ ppResults = DEFAULT_CONFIG

\* configure(userConfig), with its closing debug(...) message.
LoggerConfigure ==
  /\ ppPc = "start"
  /\ ppResults' = configure(ppOptions)
  /\ ppProc' = ppProc \cup {[call |-> 0, level |-> LOG_LEVELS(T_DEBUG).num,
                             emitted |-> logEmits(LOG_LEVELS(T_DEBUG).num,
                                                  configure(ppOptions))]}
  /\ ppPc' = "configured"
  /\ UNCHANGED <<ppOptions, ppI, monitorVars, roundVars, clVars, stVars, anVars>>

\* error(m), warn(m), info(m) or debug(m): log(LOG_LEVELS.X, m).
LoggerLog(level) ==
  /\ ppPc = "configured"
  /\ ppI < MaxLogCalls
  /\ ppI' = ppI + 1
  /\ ppProc' = ppProc \cup {[call |-> ppI + 1, level |-> level,
                             emitted |-> logEmits(level, ppResults)]}
  /\ UNCHANGED <<ppOptions, ppPc, ppResults, monitorVars, roundVars, clVars, stVars, anVars>>

NextLogger ==
  \/ LoggerConfigure
  \/ \E level \in 0..3 : LoggerLog(level)

SpecLogger == InitLogger /\ [][NextLogger]_vars

(***************************************************************************)
(* Properties of the tracker (SpecMonitor).                                *)
(***************************************************************************)
EndEvents == SelectSeq(metrics.requestTimeline, LAMBDA e : e.type = "end")

\* The phrases the classifier lists, as a set.
ConcurrencyPhrases ==
  {P_insufficient_tokens, P_project_not_available, P_concurrent_modification,
   P_race_condition, P_conflict}

\* text holds phrase as a substring, letter case ignored.
HoldsPhrase(text, phrase) == includes(toLowerCase(text), phrase)

\* C1: over every sequence of startRequest and endRequest calls (endRequest
\* for ids that are not active included) concurrentRequests is never negative
\* and peakConcurrency never decreases.
C1_DepthNonNegativePeakMonotone ==
  [][/\ metrics.concurrentRequests >= 0
     /\ metrics'.concurrentRequests >= 0
     /\ metrics'.peakConcurrency >= metrics.peakConcurrency]_vars

\* Both requests were started and ended again: the depth fell back to 0
\* under a peak of 2.
C1_Witness ==
  /\ metrics.peakConcurrency = 2
  /\ metrics.concurrentRequests = 0
  /\ Len(EndEvents) = 2

\* C5: raceConditions <= failedRequests, and every completed request is
\* counted in exactly one of success, anomaly (raceConditions) and ordinary
\* failure (failedRequests - raceConditions): the three counts are
\* non-negative and sum to the number of completed requests, the successes
\* being the completions flagged successful.
C5_OutcomeClassesPartition ==
  LET anomalies == metrics.raceConditions
      ordinary == metrics.failedRequests - metrics.raceConditions
  IN /\ metrics.raceConditions <= metrics.failedRequests
     /\ anomalies >= 0 /\ ordinary >= 0
     /\ metrics.successfulRequests + anomalies + ordinary = Len(EndEvents)
     /\ metrics.successfulRequests
          = Len(SelectSeq(EndEvents, LAMBDA e : e.success))
     /\ anomalies + ordinary
          = Len(SelectSeq(EndEvents, LAMBDA e : ~e.success))

\* Two requests failed, one of them an anomaly.
C5_Witness ==
  /\ metrics.failedRequests = 2
  /\ metrics.raceConditions = 1
  /\ Len(EndEvents) = 2

\* C6: an endRequest call for a request that failed, whose error text holds
\* one of the concurrency phrases (case-insensitively, as a substring) and
\* which has another request's start event within the window of its own
\* start, increments raceConditions by exactly 1.
C6_MatchingFailureCounted ==
  ( /\ lastEnd.called
    /\ ~lastEnd.success
    /\ lastEnd.error.kind = "string"
    /\ \E p \in ConcurrencyPhrases : HoldsPhrase(lastEnd.error.text, p)
    /\ lastEnd.cohort )
  => metrics.raceConditions = lastEnd.raceBefore + 1

\* A failure "Insufficient Tokens" with a cohort has just been ended.
C6_Witness ==
  /\ lastEnd.called
  /\ lastEnd.error = Str(T_InsufficientTokens)
  /\ lastEnd.cohort
  /\ metrics.raceConditions >= 1

\* C7: an endRequest call for a failed request whose error text holds none
\* of the concurrency phrases, or whose error descriptor is absent, leaves
\* raceConditions unchanged, whatever started within the window.
C7_OtherFailureNeverCounted ==
  ( /\ lastEnd.called
    /\ ~lastEnd.success
    /\ \/ lastEnd.error.kind \in {"undefined", "null"}
       \/ /\ lastEnd.error.kind = "string"
          /\ \A p \in ConcurrencyPhrases : ~HoldsPhrase(lastEnd.error.text, p) )
  => metrics.raceConditions = lastEnd.raceBefore

\* A failure "invalid email" with a cohort has just been ended after a
\* failure without descriptor, and nothing was counted.
C7_Witness ==
  /\ lastEnd.called
  /\ lastEnd.error = Str(T_InvalidEmail)
  /\ lastEnd.cohort
  /\ Str(T_UnknownError) \in DOMAIN metrics.errors
  /\ metrics.raceConditions = 0

\* C8 as stated: a failed request with a cohort whose error text holds
\* "not available" is counted as an anomaly.
C8_NotAvailableCounted ==
  ( /\ lastEnd.called
    /\ ~lastEnd.success
    /\ lastEnd.error.kind = "string"
    /\ HoldsPhrase(lastEnd.error.text, P_not_available)
    /\ lastEnd.cohort )
  => metrics.raceConditions = lastEnd.raceBefore + 1

\* C8 amended: a failed request with a cohort whose error text holds
\* "project not available" (as in "Project Not Available") is counted as an
\* anomaly: raceConditions is incremented.
C8_ProjectNotAvailableCounted ==
  ( /\ lastEnd.called
    /\ ~lastEnd.success
    /\ lastEnd.error.kind = "string"
    /\ HoldsPhrase(lastEnd.error.text, P_project_not_available)
    /\ lastEnd.cohort )
  => metrics.raceConditions = lastEnd.raceBefore + 1

\* A failure "Project Not Available" with a cohort has just been ended and
\* counted.
C8_Witness ==
  /\ lastEnd.called
  /\ lastEnd.error = Str(T_ProjectNotAvailable)
  /\ lastEnd.cohort
  /\ metrics.raceConditions = lastEnd.raceBefore + 1

CountUpTo(timeline, k, type) ==
  Cardinality({j \in 1..k : timeline[j].type = type})

EndsFollowStarts(t) ==
  \A k \in 1..Len(t) :
    t[k].type = "end" =>
      Cardinality({j \in 1..k : t[j].type = "start" /\ t[j].requestId = t[k].requestId})
      >= Cardinality({j \in 1..k : t[j].type = "end" /\ t[j].requestId = t[k].requestId})

RECURSIVE sumOver(_, _)
sumOver(map, keys) ==
  IF keys = {} THEN 0
  ELSE LET k == CHOOSE x \in keys : TRUE
       IN map[k] + sumOver(map, keys \ {k})

\* The counts of metrics.errors, added up.
ErrorsTotal == sumOver(metrics.errors, DOMAIN metrics.errors)

\* C21: in every reachable state the counts in metrics.errors add up to
\* metrics.failedRequests, and every counted failure whose descriptor is a
\* text, or is missing, adds one to the count of exactly that text
\* ("Unknown error" when there is none) and changes no other count.
C21_ErrorsSumToFailed ==
  /\ [](ErrorsTotal = metrics.failedRequests)
  /\ [][ ( /\ metrics'.failedRequests = metrics.failedRequests + 1
           /\ lastEnd'.error.kind # "array" )
         => LET key == IF lastEnd'.error.kind = "string" /\ lastEnd'.error.text # <<>>
                         THEN lastEnd'.error
                         ELSE Str(T_UnknownError)
            IN metrics'.errors =
                 [k \in DOMAIN metrics.errors \cup {key} |->
                    IF k = key
                      THEN (IF k \in DOMAIN metrics.errors THEN metrics.errors[k] ELSE 0) + 1
                      ELSE metrics.errors[k]] ]_vars

\* Two failures without a descriptor have been counted, both under
\* "Unknown error".
C21_Witness ==
  /\ metrics.failedRequests = 2
  /\ Str(T_UnknownError) \in DOMAIN metrics.errors
  /\ metrics.errors[Str(T_UnknownError)] = 2
  /\ lastEnd.error = Undefined

\* The timeline holds a start event of another request exactly one window
\* away from the start of the request ended last.
NearestAtWindow ==
  \E j, k \in 1..Len(metrics.requestTimeline) :
    LET a == metrics.requestTimeline[j]
        b == metrics.requestTimeline[k]
    IN /\ a.type = "start" /\ b.type = "start"
       /\ a.requestId = lastEnd.requestId
       /\ b.requestId # lastEnd.requestId
       /\ b.timestamp - a.timestamp \in {ProximityWindowMs, -ProximityWindowMs}

\* C28: an endRequest call for a failed request that has no start event of
\* another request strictly less than 100 ms from its own start leaves
\* raceConditions unchanged, whatever its error text.
C28_NoCohortNeverCounted ==
  ( /\ lastEnd.called
    /\ ~lastEnd.success
    /\ ~lastEnd.cohort )
  => metrics.raceConditions = lastEnd.raceBefore

\* A failure "insufficient tokens" whose nearest other start is exactly
\* 100 ms away has just been ended, and nothing was counted.
C28_Witness ==
  /\ lastEnd.called
  /\ ~lastEnd.success
  /\ lastEnd.error = Str(T_InsufficientTokens)
  /\ ~lastEnd.cohort
  /\ NearestAtWindow
  /\ metrics.raceConditions = 0

\* C30: in every reachable tracker state totalRequests equals
\* successfulRequests plus failedRequests plus the number of active requests.
C30_RequestsConserved ==
  metrics.totalRequests =
    metrics.successfulRequests + metrics.failedRequests + Len(activeRequests)

\* One request has failed without a descriptor while another is still
\* active.
C30_Witness ==
  /\ metrics.totalRequests = 2
  /\ metrics.failedRequests = 1
  /\ Len(activeRequests) = 1
  /\ lastEnd.called
  /\ lastEnd.error = Undefined

(***************************************************************************)
(* Properties of the latency statistics (SpecLatency).                     *)
(***************************************************************************)
\* C20: responseTimes holds one entry per endRequest that found its request,
\* failed or successful, in the order of the end events (so its length is
\* successfulRequests + failedRequests), and avgResponseTime is the mean of
\* the entries rounded to the nearest integer (halves up), 0 when there is
\* no entry.
C20_LatencyCoversAllCompleted ==
  LET rts == metrics.responseTimes
      n == Len(rts)
      avg == getMetrics(Monitor).avgResponseTime
  IN /\ n = metrics.successfulRequests + metrics.failedRequests
     /\ n = Len(EndEvents)
     /\ \A k \in 1..n : rts[k] = EndEvents[k].responseTime
     /\ n = 0 => avg = 0
     /\ n > 0 => /\ 2 * (sumSeq(rts) - avg * n) < n
                 /\ 2 * (avg * n - sumSeq(rts)) <= n

\* Latencies 100, 200 and 300, one of them of a failed request, average 200.
C20_Witness ==
  /\ metrics.responseTimes = <<100, 200, 300>>
  /\ metrics.failedRequests >= 1
  /\ getMetrics(Monitor).avgResponseTime = 200

(***************************************************************************)
(* Properties of the monitored round (SpecRound).                          *)
(***************************************************************************)
RECURSIVE MaxCount(_)
\* The largest depth a timeline records (0 for the empty timeline).
MaxCount(timeline) ==
  IF timeline = <<>> THEN 0
  ELSE Max(timeline[Len(timeline)].concurrentCount,
           MaxCount(SubSeq(timeline, 1, Len(timeline) - 1)))

\* The ids registered with startRequest so far.
StartedIds ==
  {metrics.requestTimeline[k].requestId :
     k \in {j \in 1..Len(metrics.requestTimeline) :
              metrics.requestTimeline[j].type = "start"}}

\* C2: in every state reached by interleaving the request tasks of a round
\* with getMetrics polls, concurrentRequests is the number of active requests
\* and peakConcurrency the largest depth there has been; a poll observes a
\* depth equal to the size of the active set and a peak equal to the largest
\* depth its timeline records.
C2_DepthAndPeakConsistent ==
  /\ metrics.concurrentRequests = Len(activeRequests)
  /\ metrics.peakConcurrency = peakSeen
  /\ polled # <<>> =>
       /\ polled.concurrentRequests = polled.currentConcurrency
       /\ polled.peakConcurrency = MaxCount(polled.requestTimeline)
       /\ polled.peakConcurrency >= polled.concurrentRequests

\* A poll ran while one of two requests was still in flight.
C2_Witness ==
  /\ polled # <<>>
  /\ polled.currentConcurrency = 1
  /\ polled.peakConcurrency = 2
  /\ Len(activeRequests) = 0

\* C4: a user's failed request (a structured failure with any descriptor
\* makePurchase can return, or an exception while it is processed) is a
\* failed outcome of that user only: no task is rejected, the run does not
\* end with an error, and a resolved round holds one outcome per user.
C4_FailureStaysLocal ==
  /\ mainPc # "exit1"
  /\ \A i \in 1..NumUsers : tasks[i].pc # "rejected"
  /\ roundResults # <<>> =>
       /\ Len(roundResults) = NumUsers
       /\ \A i \in 1..NumUsers : roundResults[i].user = users[i].email

\* C9: endRequest is called exactly once for every request registered with
\* startRequest: never twice, and once for each when the round has resolved
\* or the run has ended; after a resolved round no request is active and the
\* depth is 0.
C9_EveryRequestEndedOnce ==
  /\ \A id \in DOMAIN endCalls : endCalls[id] <= 1
  /\ mainPc \in {"pausing", "exit0", "exit1"} =>
       \A id \in StartedIds : mapGet(endCalls, id) = 1
  /\ mainPc \in {"pausing", "exit0"} =>
       /\ activeRequests = <<>>
       /\ metrics.concurrentRequests = 0

StartOf(e) ==
  LET k == CHOOSE k \in 1..Len(metrics.requestTimeline) :
             /\ metrics.requestTimeline[k].type = "start"
             /\ metrics.requestTimeline[k].requestId = e.requestId
  IN metrics.requestTimeline[k]

\* The anomaly rule applied after the fact: the failed requests of the
\* timeline that have, in the whole timeline, a start event of another
\* request within the window.  (Every failure of the two-round run carries
\* the text "project not available", which the classifier accepts.)
RaceConditionsRecount ==
  Len(SelectSeq(metrics.requestTimeline,
                LAMBDA e :
                  /\ e.type = "end"
                  /\ ~e.success
                  /\ concurrentRequestsOf(metrics.requestTimeline,
                                          [id |-> e.requestId,
                                           startTime |-> StartOf(e).timestamp]) # <<>>))

\* C29: in the round loop no start event of another request within 100 ms of
\* a request's start is appended after that request's end event, and so
\* raceConditions, accumulated call by call, equals the count the same rule
\* gives for every failed request against the timeline as it stands.
C29_IncrementalEqualsRecount ==
  /\ metrics.raceConditions = RaceConditionsRecount
  /\ \A k, j \in 1..Len(metrics.requestTimeline) :
       LET e == metrics.requestTimeline[k]
           n == metrics.requestTimeline[j]
       IN ( /\ k < j
            /\ e.type = "end"
            /\ n.type = "start"
            /\ n.requestId # e.requestId )
          => \/ n.timestamp - StartOf(e).timestamp >= ProximityWindowMs
             \/ StartOf(e).timestamp - n.timestamp >= ProximityWindowMs

\* A second round has been dispatched exactly 100 ms after the first, whose
\* two requests both failed and were counted; the process ended normally.
C29_Witness ==
  /\ mainPc = "exit0"
  /\ metrics.totalRequests = 2 * NumUsers
  /\ metrics.raceConditions >= 2
  /\ \E k, j \in 1..Len(metrics.requestTimeline) :
       /\ k < j
       /\ metrics.requestTimeline[k].type = "end"
       /\ ~metrics.requestTimeline[k].success
       /\ metrics.requestTimeline[j].type = "start"
       /\ metrics.requestTimeline[j].timestamp
            = StartOf(metrics.requestTimeline[k]).timestamp + ProximityWindowMs

\* What the value returned by the last getMetrics call reads as now.  The
\* spread copies the numbers of this.metrics, but responseTimes, errors and
\* requestTimeline are copied as references to the monitor's own array, Map
\* and array, which startRequest and endRequest change in place.
returnedMetricsNow ==
  [polled EXCEPT !.responseTimes = metrics.responseTimes,
                 !.errors = metrics.errors,
                 !.requestTimeline = metrics.requestTimeline]

\* C31: a value returned by getMetrics keeps every field it was returned
\* with, whatever startRequest and endRequest calls follow.
C31_ReturnedMetricsAreSnapshot ==
  polled # <<>> => returnedMetricsNow = polled

(***************************************************************************)
(* Properties of runParallelPurchases (SpecParallel).                      *)
(***************************************************************************)
\* C3: with options.concurrent = C > 0 never more than C users' purchase
\* sequences are in flight at once, for any number of users and any order of
\* completion.
C3_CeilingRespected ==
  ppOptions.concurrent > 0 => Cardinality(InFlight) <= ppOptions.concurrent

\* With C = 2 and 4 users the second batch is in flight: two users, after
\* the first two have finished.
C3_Witness ==
  /\ ppOptions.concurrent = 2
  /\ ppOptions.users = 4
  /\ ppI = 2
  /\ Cardinality(InFlight) = 2

\* The users whose processUserPurchases call has not been made yet.
NotStarted == {u \in DOMAIN ppProc : ppProc[u].status = "waiting"}

\* C23: with options.concurrent = 0 all users are started in one batch: once
\* any user's purchase sequence has completed, every user's first purchase
\* has been issued, and users are never partly started.
C23_NoCeilingStartsAll ==
  ppOptions.concurrent = 0
  => /\ NotStarted \in {{}, DOMAIN ppProc}
     /\ (\E u \in DOMAIN ppProc : ppProc[u].status = "finished") => NotStarted = {}

\* Without a ceiling and with three users, one user has finished while
\* another is still waiting for the answer to its first purchase.
C23_Witness ==
  /\ ppOptions.concurrent = 0
  /\ ppOptions.users = 3
  /\ \E u \in DOMAIN ppProc : ppProc[u].status = "finished"
  /\ \E u \in DOMAIN ppProc :
       ppProc[u].status = "running" /\ ppProc[u].i = 0 /\ ppProc[u].phase = "purchase"

\* C24: with a ceiling C > 0, while a batch is being awaited and at least one
\* user has not been started, exactly C users are in flight.
C24_SlotRefilledAtOnce ==
  ( /\ ppOptions.concurrent > 0
    /\ ppPc = "awaiting"
    /\ NotStarted # {} )
  => Cardinality(InFlight) = ppOptions.concurrent

C17_DelaysWithinBurst ==
  clPc # "none" =>
    \A i \in 1..MaxClickUsers :
      /\ clClicks[i].delay >= 0
      /\ clClicks[i].delay < clOptions.burst


\* C19: when the measured duration of the run is 0 ms the analysis reports
\* a throughput equal to the number of requests.
C19_ZeroDurationThroughput ==
  (/\ clPc = "returned"
   /\ IF clOptions.script = "simultaneous-clicks"
        THEN clReturn.totalTime = 0
        ELSE clReturn.results[MaxClickUsers].timestamp
               = clReturn.results[1].timestamp)
  => clAnalysis.throughput = Whole(Len(clReturn.results))


\* C37: the throughput analyzeResults of multi-user-simulator reports is
\* never negative, whatever the click delays of the users.
C37_ThroughputNotNegative ==
  (clOptions.script = "multi-user-simulator" /\ clAnalysis # <<>>)
  => /\ clAnalysis.throughput.kind \in {"number", "Infinity"}
     /\ clAnalysis.throughput.num >= 0

(***************************************************************************)
(* Properties of the stress-test scenarios (SpecStress).                   *)
(***************************************************************************)
\* C11: when the sustained scenario returns, its results array holds the
\* outcome of every request the scenario issued.
C11_SustainedResultsComplete ==
  (stPc = "returned" /\ stOptions.scenario = "sustained")
    => Len(stReturn.results) = stIssued

\* C16: for N users each of the burst, spike and gradual scenarios issues
\* exactly N requests in total.
C16_BatchScenariosIssueN ==
  (stPc = "returned" /\ stOptions.scenario \in {"burst", "spike", "gradual"})
    => stIssued = stOptions.users


\* C32: in the sustained scenario every step that issues a request issues
\* one, at a tick of the 500 ms interval that no earlier request was issued
\* at and before 10 000 ms have elapsed; once the scenario has returned no
\* interval timer is left; and no run issues more than 20 requests.
C32_SustainedIssuesWithinDuration ==
  /\ []( stOptions # <<>> /\ stOptions.scenario = "sustained"
         => /\ stIssued * SustainedIntervalMs <= stNow - stStart
            /\ stIssued * SustainedIntervalMs <= SustainedDurationMs
            /\ stPc = "returned" => \A tm \in stTimers : tm.kind # "interval" )
  /\ [][ ( /\ stOptions # <<>>
           /\ stOptions.scenario = "sustained"
           /\ stIssued' # stIssued )
         => /\ stIssued' = stIssued + 1
            /\ stNow' - stStart < SustainedDurationMs
            /\ (stNow' - stStart) % SustainedIntervalMs = 0 ]_vars

\* The sustained scenario has returned after issuing a request at each of
\* the 19 ticks before 10 000 ms, its interval cleared.
C32_Witness ==
  /\ stOptions # <<>>
  /\ stOptions.scenario = "sustained"
  /\ stPc = "returned"
  /\ stIssued = (SustainedDurationMs \div SustainedIntervalMs) - 1
  /\ stTimers = {}

\* The emails of the requests in flight.
PendingUsers == {q.user : q \in stPending}

\* C33: the spike scenario issues the requests of a phase only when no
\* request is in flight, to the first ceil(0.2 N), N and ceil(0.3 N) users
\* in turn, and never has more than N requests in flight.
C33_SpikePhasesInSequence ==
  /\ []( stOptions # <<>> /\ stOptions.scenario = "spike"
         => /\ Cardinality(stPending) <= stOptions.users
            /\ stStep <= 3 )
  /\ [][ ( /\ stOptions # <<>>
           /\ stOptions.scenario = "spike"
           /\ stIssued' # stIssued )
         => /\ stPending = {}
            /\ stStep' = stStep + 1
            /\ LET size == CASE stStep' = 1 -> (2 * stOptions.users + 9) \div 10
                             [] stStep' = 2 -> stOptions.users
                             [] stStep' = 3 -> (3 * stOptions.users + 9) \div 10
               IN /\ stIssued' = stIssued + size
                  /\ Cardinality(stPending') = size ]_vars

\* With three users the spike scenario has returned its three phases, of 1,
\* 3 and 1 users.
C33_Witness ==
  /\ stOptions # <<>>
  /\ stOptions.scenario = "spike"
  /\ stOptions.users = 3
  /\ stPc = "returned"
  /\ Len(stResults) = 3
  /\ <<stResults[1].users, stResults[2].users, stResults[3].users>> = <<1, 3, 1>>

\* C34: the gradual scenario runs 5 steps; step s issues its requests to
\* exactly the first ceil(N s / 5) users, when no request is in flight and,
\* after the first step, not before the pause of 1000 ms that follows the
\* completion of the step before has elapsed; the step sizes never decrease
\* and the last step takes all N users.
C34_GradualStepsInSequence ==
  /\ []( stOptions # <<>> /\ stOptions.scenario = "gradual"
         => /\ stStep <= 5
            /\ \A k \in 1..Len(stResults) :
                 /\ stResults[k].step = k
                 /\ stResults[k].users * 5 >= stOptions.users * k
                 /\ (stResults[k].users - 1) * 5 < stOptions.users * k
                 /\ k > 1 => stResults[k].users >= stResults[k - 1].users
                 /\ k = 5 => stResults[k].users = stOptions.users )
  /\ [][ ( /\ stOptions # <<>>
           /\ stOptions.scenario = "gradual"
           /\ stIssued' # stIssued )
         => /\ stPending = {}
            /\ stStep' = stStep + 1
            /\ Len(stResults) = stStep
            /\ stStep >= 1
                 => stNow' >= stStart + stResults[stStep].duration + GradualPauseMs
            /\ \E n \in 1..stOptions.users :
                 /\ n * 5 >= stOptions.users * stStep'
                 /\ (n - 1) * 5 < stOptions.users * stStep'
                 /\ PendingUsers' = {UserEmailList[j] : j \in 1..n}
                 /\ Cardinality(stPending') = n ]_vars

\* With three users the gradual scenario has returned its five steps, of 1,
\* 2, 2, 3 and 3 users.
C34_Witness ==
  /\ stOptions # <<>>
  /\ stOptions.scenario = "gradual"
  /\ stOptions.users = 3
  /\ stPc = "returned"
  /\ Len(stResults) = 5
  /\ [k \in 1..5 |-> stResults[k].users] = <<1, 2, 2, 3, 3>>

(***************************************************************************)
(* Properties of the analysis functions (SpecAnalysis).                    *)
(***************************************************************************)
\* C18: every analysis reports the success rate successful / total (in
\* percent; getMetrics rounds it to hundredths) when there is an outcome,
\* and 0 when there is none.
C18_SuccessRateDefined ==
  anOut # <<>> =>
    IF anOut.total = 0
      THEN anOut.successRate = Whole(0)
      ELSE IF anOut.fn = "getMetrics"
             THEN anOut.successRate
                    = jsDiv(roundDiv(anOut.successful * 10000, anOut.total), 100)
             ELSE anOut.successRate = jsDiv(anOut.successful * 100, anOut.total)

(***************************************************************************)
(* Properties of makePurchase and simulateUserClick (SpecPurchase).        *)
(***************************************************************************)
\* The server's answer carries a message: a text that is not empty, or a
\* list.
HasServerMessage(http) ==
  \/ http.message.kind = "array"
  \/ http.message.kind = "string" /\ http.message.text # <<>>

\* C26: makePurchase never rejects: on a 2xx answer it resolves with
\* success = true and the response data, and on an error status or a network
\* exception with success = false and the server's message when there is
\* one, the exception's message otherwise.
C26_MakePurchaseAlwaysResolves ==
  (anOut # <<>> /\ anOut.fn = "makePurchase")
  => /\ anOut.returned.settled = "fulfilled"
     /\ IF anOut.answer.kind = "ok"
          THEN /\ anOut.returned.value.success
               /\ anOut.returned.value.data = anOut.answer.data
          ELSE /\ ~anOut.returned.value.success
               /\ anOut.returned.value.error =
                    IF HasServerMessage(anOut.answer)
                      THEN anOut.answer.message
                      ELSE anOut.answer.errmsg

\* A network error "Network Error" has been turned into a failure result
\* after an error status with the message "invalid email" was.
C26_Witness ==
  /\ Len(anResults) = 2
  /\ anResults[1].message = Str(T_InvalidEmail)
  /\ anOut.fn = "makePurchase"
  /\ anOut.answer.kind = "network"
  /\ anOut.returned.settled = "fulfilled"
  /\ anOut.returned.value.error = Str(T_NetworkError)

\* C27: in every outcome of simulateUserClick the error descriptor is
\* non-null exactly when success is false.
C27_ErrorIffFailure ==
  (anOut # <<>> /\ anOut.fn = "simulateUserClick")
  => (anOut.returned.error # Null <=> ~anOut.returned.success)

(***************************************************************************)
(* Properties of the entry points (SpecEntry).                             *)
(***************************************************************************)
\* C22: an entry point started with an empty client list goes from main
\* straight to exit status 1: no request is issued and no report is made.
C22_EmptyListRejected ==
  (clOptions.users = 0 /\ clPc # "main")
  => /\ clPc = "exit1"
     /\ clClicks = <<>>
     /\ clReturn = <<>>
     /\ clAnalysis = <<>>

(***************************************************************************)
(* Properties of main of multi-users (SpecMultiUsers).                     *)
(***************************************************************************)
\* C25: started with a readable configuration with at least one user, main
\* eventually has the results of every configured user from
\* runParallelPurchases and exits with status 0.
C25_MainRunsAllUsersAndExitsZero ==
  <>(ppPc = "exit0" /\ Len(ppResults) = ppOptions.users)

(***************************************************************************)
(* Properties of simulateMultipleTransactions (SpecSimple).                *)
(***************************************************************************)
\* The rounds user u has an outcome for.
RoundsOf(u) ==
  {ppResults[k].transaction : k \in {j \in 1..Len(ppResults) : ppResults[j].user = u}}

\* C35: no user ever has two requests in flight, the requests in flight
\* all belong to the round being awaited (a round starts only when the
\* round before has completed), and when the simulation has returned every
\* user with test size t has exactly one outcome for each of the rounds
\* 1..t, so that the outcomes number the sum of the test sizes.
C35_RoundsByTestSize ==
  /\ \A q, r \in ppProc : q.user = r.user => q = r
  /\ \A q \in ppProc : q.transaction = ppI + 1
  /\ ppPc = "loop" => ppProc = {}
  /\ ppPc = "done" =>
       /\ \A u \in DOMAIN ppOptions.testSizes : RoundsOf(u) = 1..ppOptions.testSizes[u]
       /\ Len(ppResults) = sumSeq(ppOptions.testSizes)

\* Two users with test sizes 2 and 1: the simulation has returned three
\* outcomes, the last of them of the first user alone in round 2.
C35_Witness ==
  /\ ppOptions = [testSizes |-> <<2, 1>>]
  /\ ppPc = "done"
  /\ Len(ppResults) = 3
  /\ ppResults[3].user = 1
  /\ ppResults[3].transaction = 2


(***************************************************************************)
(* Properties of runSimulation (SpecSimulation).                           *)
(***************************************************************************)
\* C36: runSimulation never has more than one purchase in flight, and when
\* it returns, successful + failed = total and errors holds exactly one
\* entry for every failed purchase.
C36_SequentialAndAddsUp ==
  /\ Cardinality(ppProc) <= 1
  /\ ppPc = "returned" =>
       /\ ppResults.total = Whole(ppResults.successful + ppResults.failed)
       /\ Len(ppResults.errors) = ppResults.failed
       /\ \A j, k \in 1..Len(ppResults.errors) :
            ppResults.errors[j].index = ppResults.errors[k].index => j = k


(***************************************************************************)
(* Properties of runCompleteTestSuite (SpecSuite).                         *)
(***************************************************************************)
\* C38: the four child tests run one at a time in the order
\* simultaneous-clicks, stress-burst, stress-sustained, concurrency-monitor;
\* the function returns exactly four records; a child that exits non-zero
\* or cannot be spawned gets a record with success = false, and the suite
\* goes on with the following test.
C38_FourTestsOneAtATime ==
  /\ [](/\ Cardinality(ppProc) <= 1
        /\ \A child \in ppProc :
             /\ child.test = Len(ppResults) + 1
             /\ child.script = SuiteTests[child.test].script
        /\ Len(ppResults) <= 4
        /\ \A k \in 1..Len(ppResults) :
             ppResults[k].testType
               = <<"simultaneous-clicks", "stress-burst", "stress-sustained",
                   "concurrency-monitor">>[k]
        /\ (ppPc = "returned" <=> Len(ppResults) = 4)
        /\ (ppPc # "returned" => ENABLED NextSuite))
  /\ [][\A child \in ppProc :
          (/\ Len(ppResults') = Len(ppResults) + 1
           /\ child.pc = "failed" \/ (child.pc = "exited" /\ child.code # 0))
          => /\ ppResults'[Len(ppResults')].success = FALSE
             /\ ppPc' # "returned" => ppPc' = "pausing"]_vars

C38_Witness ==
  /\ ppPc = "returned"
  /\ Len(ppResults) = 4
  /\ ~ppResults[1].success /\ ppResults[1].error
  /\ ~ppResults[2].success /\ ~ppResults[2].error
  /\ ppResults[3].success
  /\ ppResults[4].success


(***************************************************************************)
(* Properties of the logger (SpecLogger).                                  *)
(***************************************************************************)
\* C39: after configure({level: name}) with name one of ERROR, WARN, INFO,
\* DEBUG in any letter case, the logger's level is the named one, and a
\* message is emitted exactly when its level is at least as severe (not
\* greater in number) as the named one.
C39_ConfiguredLevelIsNamed ==
  (/\ ppPc = "configured"
   /\ ppOptions.level.kind = "string"
   /\ toUpperCase(ppOptions.level.text) \in {T_ERROR, T_WARN, T_INFO, T_DEBUG})
  => LET named == LOG_LEVELS(toUpperCase(ppOptions.level.text))
     IN /\ ppResults.level = named
        /\ \A c \in ppProc : c.emitted <=> c.level <= named.num

====
